---- MODULE Spec2Model ----
(***************************************************************************)
(* A model of the pdf2docx converters: the spacing repair, the joining of  *)
(* a cluster's fragments, the image fitter, the clustering of a page's     *)
(* text blocks and the conversion run of ModernPDF2DOCXConverter           *)
(* (src/converters/modern_pdf2docx_converter.py, with its older copy       *)
(* src/modern_pdf2docx_converter.py where they differ), and the run of     *)
(* AdvancedPDF2DOCXConverter (src/advanced_pdf2docx_converter.py).         *)
(*                                                                         *)
(* A Python str is a sequence of one-character strings.  A float is an     *)
(* exact rational <<numerator, denominator>>; a docx Length is an integer  *)
(* number of EMU.                                                          *)
(***************************************************************************)
EXTENDS Integers, Sequences, FiniteSets, TLC

VARIABLES
    conversion_stats,   \* self.conversion_stats
    text,               \* the argument of the next _fix_text_spacing call
    fix_rets,           \* the values _fix_text_spacing returned, in call order
    fix_args,           \* the arguments it was called with, in call order
    text_parts,         \* the argument of _combine_text_with_spacing
    combined_parts,     \* its list combined_parts when its loop has ended
    combined_text,      \* the string it returned
    copy,               \* which converter runs: "converters" (src/converters/),
                        \* its older copy "root" (src/), or "advanced"
    docx_section,       \* self.docx_document.sections[0]: page size and margins (EMU)
    docx_pictures,      \* the pictures of self.docx_document, in order (EMU)
    image_log,          \* per call of _add_image_to_document: argument and outcome
    text_blocks,        \* a page's text blocks: as the page gives them, then as
                        \* _extract_text_with_layout returns them
    layout,             \* "page" before _extract_text_with_layout, "extracted" after
    paragraphs,         \* what _group_text_into_paragraphs returned
    call,               \* the arguments of convert_pdf_to_docx
    pdf_file,           \* the file at pdf_path: None if there is none to open
    total_pages,        \* the number of its pages: len(self.pdf_document)
    pdf_document,       \* self.pdf_document (self.pdf_reader, pdf_doc)
    pc,                 \* where the conversion stands
    page_indices,       \* extract_pdf_content's page_indices
    extracted_pages,    \* extracted_content['pages']
    document,           \* what self.docx_document has been given, in order
    output_file,        \* the file at output_path: "absent", "empty" or "written"
    result,             \* what convert_pdf_to_docx returned
    earlier_calls,      \* the calls made on this converter object before `call`
    template_document,  \* self.template_document: None, or the template's section
    custom_fonts,       \* self.custom_fonts, in order of registration
    docx_paragraphs,    \* the text paragraphs of self.docx_document: the runs of each
    upload_folder,      \* the files of UPLOAD_FOLDER: name -> content
    output_folder,      \* the files of OUTPUT_FOLDER: name -> content
    requests            \* the /convert requests being handled, each with its position

textVars == <<text, fix_rets, fix_args>>
combineVars == <<text_parts, combined_parts, combined_text>>
imageVars == <<copy, docx_section, docx_pictures, image_log>>
groupVars == <<text_blocks, layout, paragraphs>>
runVars == <<call, pdf_file, total_pages, pdf_document, pc, page_indices,
            extracted_pages, document, output_file, result>>
instanceVars == <<earlier_calls, template_document, custom_fonts>>
paragraphVars == <<docx_paragraphs>>
webVars == <<upload_folder, output_folder, requests>>
vars == <<conversion_stats, textVars, combineVars, imageVars, groupVars, runVars,
          instanceVars, paragraphVars, webVars>>

\* an Optional value: None, or Some(v) holding v
None == <<>>
Some(v) == <<v>>
Value(o) == o[1]

(***************************************************************************)
(* Character classes of the regular expressions.                           *)
(***************************************************************************)
Lower == {"a","b","c","d","e","f","g","h","i","j","k","l","m",
          "n","o","p","q","r","s","t","u","v","w","x","y","z"}
Upper == {"A","B","C","D","E","F","G","H","I","J","K","L","M",
          "N","O","P","Q","R","S","T","U","V","W","X","Y","Z"}
Digit == {"0","1","2","3","4","5","6","7","8","9"}
TerminalPunct == {".", "!", "?"}
Whitespace == {" ", "\t", "\n", "\r", "\f"}

\* the alternation (of|and|the|in|on|at|by|for|with|to), in its order
CommonWords == << <<"o","f">>, <<"a","n","d">>, <<"t","h","e">>, <<"i","n">>,
                 <<"o","n">>, <<"a","t">>, <<"b","y">>, <<"f","o","r">>,
                 <<"w","i","t","h">>, <<"t","o">> >>

(***************************************************************************)
(* re.sub: the string is scanned from the left; where the pattern matches, *)
(* the replacement is emitted and the scan goes on after the match; where  *)
(* it does not, one character is copied.                                   *)
(***************************************************************************)
RECURSIVE SubPairFrom(_, _, _, _)
SubPairFrom(s, i, First, Second) ==
    IF i > Len(s) THEN <<>>
    ELSE IF i < Len(s) /\ s[i] \in First /\ s[i+1] \in Second
         THEN <<s[i], " ", s[i+1]>> \o SubPairFrom(s, i + 2, First, Second)
         ELSE <<s[i]>> \o SubPairFrom(s, i + 1, First, Second)

\* whether word w stands in s from position i on
WordAt(s, i, w) ==
    /\ i + Len(w) - 1 <= Len(s)
    /\ \A k \in 1..Len(w) : s[i + k - 1] = w[k]

\* whether sub stands somewhere in s ("sub in s")
Contains(s, sub) == \E i \in 1..(Len(s) + 1) : WordAt(s, i, sub)

\* the alternatives with which ([a-z])(of|...|to)([A-Z]) matches at i
WordMatches(s, i) ==
    IF i > Len(s) \/ s[i] \notin Lower THEN {}
    ELSE {k \in 1..Len(CommonWords) :
            /\ WordAt(s, i + 1, CommonWords[k])
            /\ i + Len(CommonWords[k]) + 1 <= Len(s)
            /\ s[i + Len(CommonWords[k]) + 1] \in Upper}

Minimum(S) == CHOOSE m \in S : \A n \in S : m <= n

RECURSIVE SubWordFrom(_, _)
SubWordFrom(s, i) ==
    IF i > Len(s) THEN <<>>
    ELSE IF WordMatches(s, i) # {}
         THEN LET w == CommonWords[Minimum(WordMatches(s, i))]
              IN <<s[i], " ">> \o w \o <<" ", s[i + Len(w) + 1]>>
                   \o SubWordFrom(s, i + Len(w) + 2)
         ELSE <<s[i]>> \o SubWordFrom(s, i + 1)

\* the first position from i on that holds no whitespace (Len(s) + 1 if none)
RECURSIVE SkipWhitespace(_, _)
SkipWhitespace(s, i) ==
    IF i <= Len(s) /\ s[i] \in Whitespace THEN SkipWhitespace(s, i + 1) ELSE i

RECURSIVE SubWhitespaceFrom(_, _)
SubWhitespaceFrom(s, i) ==
    IF i > Len(s) THEN <<>>
    ELSE IF s[i] \in Whitespace
         THEN <<" ">> \o SubWhitespaceFrom(s, SkipWhitespace(s, i))
         ELSE <<s[i]>> \o SubWhitespaceFrom(s, i + 1)

\* re.sub(r'([a-z])([A-Z])', r'\1 \2', text)
InsertLowerUpper(s) == SubPairFrom(s, 1, Lower, Upper)
\* re.sub(r'([.!?])([A-Z])', r'\1 \2', text)
InsertPunctUpper(s) == SubPairFrom(s, 1, TerminalPunct, Upper)
\* re.sub(r'([a-z])(of|and|the|in|on|at|by|for|with|to)([A-Z])', r'\1 \2 \3', text)
InsertCommonWord(s) == SubWordFrom(s, 1)
\* re.sub(r'([a-z])(\d)', r'\1 \2', text)
InsertLowerDigit(s) == SubPairFrom(s, 1, Lower, Digit)
\* re.sub(r'\s+', ' ', text)
CollapseWhitespace(s) == SubWhitespaceFrom(s, 1)

\* a slip of the first pattern: any letter before an uppercase letter
FixAnyLetterUpper(s) ==
    CollapseWhitespace(InsertLowerDigit(InsertCommonWord(InsertPunctUpper(
        SubPairFrom(s, 1, Lower \cup Upper, Upper)))))

\* a slip of the last pattern: \s instead of \s+
FixEachWhitespace(s) ==
    LET each == InsertLowerDigit(InsertCommonWord(InsertPunctUpper(
                    InsertLowerUpper(s))))
    IN [i \in 1..Len(each) |-> IF each[i] \in Whitespace THEN " " ELSE each[i]]

\* a slip of the first replacement: r'\1 ' instead of r'\1 \2'
RECURSIVE SubPairFirstOnlyFrom(_, _, _, _)
SubPairFirstOnlyFrom(s, i, First, Second) ==
    IF i > Len(s) THEN <<>>
    ELSE IF i < Len(s) /\ s[i] \in First /\ s[i+1] \in Second
         THEN <<s[i], " ">> \o SubPairFirstOnlyFrom(s, i + 2, First, Second)
         ELSE <<s[i]>> \o SubPairFirstOnlyFrom(s, i + 1, First, Second)

FixDroppingUpper(s) ==
    CollapseWhitespace(InsertLowerDigit(InsertCommonWord(InsertPunctUpper(
        SubPairFirstOnlyFrom(s, 1, Lower, Upper)))))

\* the string _fix_text_spacing returns
FixedText(s) ==
    CollapseWhitespace(InsertLowerDigit(InsertCommonWord(InsertPunctUpper(
        InsertLowerUpper(s)))))

\* a slip: the counter is raised without the comparison
StatsAfterFixAlways(st, s) == [st EXCEPT !.spacing_fixes_applied = @ + 1]

\* self.conversion_stats after a call _fix_text_spacing(s) made with stats st
StatsAfterFix(st, s) ==
    IF FixedText(s) # s
    THEN [st EXCEPT !.spacing_fixes_applied = @ + 1]
    ELSE st

(***************************************************************************)
(* Bounded inputs.                                                         *)
(***************************************************************************)
MaxLen == 4
MaxCalls == 2

Alphabet == {"o", "f", "T", ".", "1", " ", "\t"}

RECURSIVE StringsUpTo(_)
StringsUpTo(n) ==
    IF n = 0 THEN {<<>>}
    ELSE LET shorter == StringsUpTo(n - 1)
         IN shorter \cup {Append(s, c) : s \in {t \in shorter : Len(t) = n - 1},
                                         c \in Alphabet}

Str_wordsOf == <<"w","o","r","d","s","O","f"," ","t","h","e","B","o","o","k">>
Str_words_Of == <<"w","o","r","d","s"," ","O","f"," ","t","h","e"," ","B","o","o","k">>
Str_bookofTales == <<"b","o","o","k","o","f","T","a","l","e","s">>
Str_book_of_Tales == <<"b","o","o","k"," ","o","f"," ","T","a","l","e","s">>

ScenarioTexts == {Str_wordsOf, Str_bookofTales}

ZeroStats == [pages_processed |-> 0, text_blocks_extracted |-> 0,
              images_extracted |-> 0, spacing_fixes_applied |-> 0]

(***************************************************************************)
(* The spacing repair, called on a string and then on what it returned.    *)
(***************************************************************************)
TextIdle == text = <<>> /\ fix_rets = <<>> /\ fix_args = <<>>
CombineIdle == text_parts = <<>> /\ combined_parts = <<>> /\ combined_text = None
ImageIdle ==
    /\ copy = "converters"
    /\ docx_section = None
    /\ docx_pictures = <<>>
    /\ image_log = <<>>
GroupIdle == text_blocks = <<>> /\ layout = "page" /\ paragraphs = None
RunIdle ==
    /\ call = None
    /\ pdf_file = None
    /\ total_pages = 0
    /\ pdf_document = None
    /\ pc = "idle"
    /\ page_indices = <<>>
    /\ extracted_pages = <<>>
    /\ document = <<>>
    /\ output_file = "absent"
    /\ result = None
InstanceIdle == earlier_calls = <<>> /\ template_document = None /\ custom_fonts = <<>>
ParagraphIdle == docx_paragraphs = <<>>
WebIdle == upload_folder = <<>> /\ output_folder = <<>> /\ requests = <<>>

InitFix ==
    /\ conversion_stats = ZeroStats
    /\ InstanceIdle
    /\ ParagraphIdle
    /\ WebIdle
    /\ CombineIdle
    /\ ImageIdle
    /\ GroupIdle
    /\ RunIdle
    /\ text \in StringsUpTo(MaxLen) \cup ScenarioTexts
    /\ fix_rets = <<>>
    /\ fix_args = <<>>

_fix_text_spacing ==
    /\ Len(fix_rets) < MaxCalls
    /\ fix_args' = Append(fix_args, text)
    /\ fix_rets' = Append(fix_rets, FixedText(text))
    /\ conversion_stats' = StatsAfterFix(conversion_stats, text)
    /\ text' = FixedText(text)
    /\ UNCHANGED <<instanceVars, paragraphVars, webVars, combineVars, imageVars,
                   groupVars, runVars>>

NextFix == _fix_text_spacing

SpecFix == InitFix /\ [][NextFix]_vars

(***************************************************************************)
(* _combine_text_with_spacing: the texts of a cluster's fragments, each    *)
(* repaired, joined with a space where the fragments stand apart, and the  *)
(* joined text repaired again.                                             *)
(***************************************************************************)
Abs(n) == IF n < 0 THEN -n ELSE n

StartsWithSpace(s) == Len(s) > 0 /\ s[1] = " "
EndsWithSpace(s) == Len(s) > 0 /\ s[Len(s)] = " "

\* a slip of the comparison: >= 10 instead of > 10
SpaceNeededFromTen(part, prev_part, fixed, last) ==
    /\ Abs(part.x - (prev_part.x + Len(prev_part.text) * 5)) >= 10
    /\ ~StartsWithSpace(fixed)
    /\ ~EndsWithSpace(last)

\* the condition under which a ' ' is appended before part's repaired text
\* `fixed`, `last` being combined_parts[-1]
SpaceNeeded(part, prev_part, fixed, last) ==
    LET x_distance == Abs(part.x - (prev_part.x + Len(prev_part.text) * 5))
    IN /\ x_distance > 10
       /\ ~StartsWithSpace(fixed)
       /\ ~EndsWithSpace(last)

\* combined_parts after the first i rounds of the loop over text_parts
RECURSIVE CombinedPartsAfter(_, _)
CombinedPartsAfter(parts, i) ==
    IF i = 0 THEN <<>>
    ELSE LET before == CombinedPartsAfter(parts, i - 1)
             fixed == FixedText(parts[i].text)
         IN IF i > 1 /\ SpaceNeeded(parts[i], parts[i-1], fixed, before[Len(before)])
            THEN before \o << <<" ">>, fixed >>
            ELSE Append(before, fixed)

\* ''.join(strs)
RECURSIVE Join(_)
Join(strs) == IF strs = <<>> THEN <<>> ELSE Head(strs) \o Join(Tail(strs))

\* the string _combine_text_with_spacing returns
CombinedText(parts) ==
    IF parts = <<>> THEN <<>>
    ELSE FixedText(Join(CombinedPartsAfter(parts, Len(parts))))

\* self.conversion_stats after the calls of _fix_text_spacing made for the
\* first i fragments
RECURSIVE StatsAfterParts(_, _, _)
StatsAfterParts(st, parts, i) ==
    IF i = 0 THEN st
    ELSE StatsAfterFix(StatsAfterParts(st, parts, i - 1), parts[i].text)

StatsAfterCombine(st, parts) ==
    IF parts = <<>> THEN st
    ELSE StatsAfterFix(StatsAfterParts(st, parts, Len(parts)),
                       Join(CombinedPartsAfter(parts, Len(parts))))

MaxParts == 2

Str_Hello == <<"H","e","l","l","o">>
Str_World == <<"W","o","r","l","d">>
Str_Hello_World == <<"H","e","l","l","o"," ","W","o","r","l","d">>

\* fragment texts: never empty, never whitespace alone
PartTexts == {<<"o">>, <<"T">>, <<"1">>, <<"o", " ">>, <<"\t", "T">>, <<"o", "T">>}
PartXs == {0, 15, 16, 40}

TextBlock(t, x, y) == [text |-> t, x |-> x, y |-> y]

RECURSIVE PartLists(_)
PartLists(n) ==
    IF n = 0 THEN {<<>>}
    ELSE LET shorter == PartLists(n - 1)
         IN shorter \cup
            {Append(ps, TextBlock(t, x, 72)) :
                ps \in {q \in shorter : Len(q) = n - 1}, t \in PartTexts, x \in PartXs}

Parts_HelloWorld == <<TextBlock(Str_Hello, 72, 72), TextBlock(Str_World, 120, 72)>>

InitCombine ==
    /\ conversion_stats = ZeroStats
    /\ InstanceIdle
    /\ ParagraphIdle
    /\ WebIdle
    /\ TextIdle
    /\ ImageIdle
    /\ GroupIdle
    /\ RunIdle
    /\ text_parts \in PartLists(MaxParts) \cup {Parts_HelloWorld}
    /\ combined_parts = <<>>
    /\ combined_text = None

_combine_text_with_spacing ==
    /\ combined_text = None
    /\ combined_parts' = CombinedPartsAfter(text_parts, Len(text_parts))
    /\ combined_text' = Some(CombinedText(text_parts))
    /\ conversion_stats' = StatsAfterCombine(conversion_stats, text_parts)
    /\ UNCHANGED <<instanceVars, paragraphVars, webVars, text_parts, textVars,
                   imageVars, groupVars, runVars>>

NextCombine == _combine_text_with_spacing

SpecCombine == InitCombine /\ [][NextCombine]_vars

(***************************************************************************)
(* Floats as exact rationals <<n, d>> with d > 0, in lowest terms.         *)
(***************************************************************************)
RECURSIVE GCD(_, _)
GCD(a, b) == IF b = 0 THEN a ELSE GCD(b, a % b)

Rat(n, d) ==
    LET g == GCD(Abs(n), Abs(d))
        sign == IF d < 0 THEN -1 ELSE 1
    IN <<sign * (n \div g), sign * (d \div g)>>

RatMul(a, b) ==
    LET g1 == GCD(Abs(a[1]), b[2])
        g2 == GCD(Abs(b[1]), a[2])
    IN Rat((a[1] \div g1) * (b[1] \div g2), (a[2] \div g2) * (b[2] \div g1))

\* a / b, for b # 0
RatDiv(a, b) ==
    RatMul(a, IF b[1] < 0 THEN <<-b[2], -b[1]>> ELSE <<b[2], b[1]>>)

RatSub(a, b) ==
    LET g == GCD(a[2], b[2])
    IN Rat(a[1] * (b[2] \div g) - b[1] * (a[2] \div g), (a[2] \div g) * b[2])

RatLeq(a, b) ==
    LET g == GCD(a[2], b[2])
    IN a[1] * (b[2] \div g) <= b[1] * (a[2] \div g)

RatMin(a, b) == IF RatLeq(a, b) THEN a ELSE b

\* int(x): towards zero
Trunc(x) == IF x[1] >= 0 THEN x[1] \div x[2] ELSE -((-x[1]) \div x[2])

\* docx.shared: a Length is a number of EMU, 914400 to the inch
EmuPerInch == 914400
\* Inches(x)
Inches(x) == Trunc(RatMul(x, <<EmuPerInch, 1>>))
\* length.inches
InInches(emu) == Rat(emu, EmuPerInch)

(***************************************************************************)
(* _add_image_to_document: the image fitter.                               *)
(***************************************************************************)
PixelsPerInch == 72
DefaultWidthInches == 6
DefaultHeightInches == 8

\* max_width and max_height, in inches
MaxWidthInches(section) ==
    RatSub(RatSub(InInches(section.page_width), InInches(section.left_margin)),
           InInches(section.right_margin))
MaxHeightInches(section) ==
    RatSub(RatSub(InInches(section.page_height), InInches(section.top_margin)),
           InInches(section.bottom_margin))

\* original_width_inches and original_height_inches once the defaults are in
OriginalInches(image_data) ==
    LET original_width_inches == Rat(image_data.width, PixelsPerInch)
        original_height_inches == Rat(image_data.height, PixelsPerInch)
    IN IF original_width_inches[1] <= 0 \/ original_height_inches[1] <= 0
       THEN [width |-> <<DefaultWidthInches, 1>>, height |-> <<DefaultHeightInches, 1>>]
       ELSE [width |-> original_width_inches, height |-> original_height_inches]

\* the copy at src/modern_pdf2docx_converter.py takes the sizes as they come
OriginalInchesRoot(image_data) ==
    [width |-> Rat(image_data.width, PixelsPerInch),
     height |-> Rat(image_data.height, PixelsPerInch)]

\* a slip: min(width_scale, height_scale), upscaling allowed
ScaleUncapped(original, max_width_inches, max_height_inches) ==
    RatMin(RatDiv(max_width_inches, original.width),
           RatDiv(max_height_inches, original.height))

\* a slip: min(width_scale, 1.0), the height forgotten
ScaleWidthOnly(original, max_width_inches, max_height_inches) ==
    RatMin(RatDiv(max_width_inches, original.width), <<1, 1>>)

\* scale = min(width_scale, height_scale, 1.0)
Scale(original, max_width_inches, max_height_inches) ==
    LET width_scale == RatDiv(max_width_inches, original.width)
        height_scale == RatDiv(max_height_inches, original.height)
    IN RatMin(RatMin(width_scale, height_scale), <<1, 1>>)

\* a slip: each side scaled by its own factor
ScaledInchesStretched(original, max_width_inches, max_height_inches) ==
    [width |-> RatMul(original.width,
                      RatMin(RatDiv(max_width_inches, original.width), <<1, 1>>)),
     height |-> RatMul(original.height,
                       RatMin(RatDiv(max_height_inches, original.height), <<1, 1>>))]

\* original_width_inches * scale and original_height_inches * scale
ScaledInches(original, max_width_inches, max_height_inches) ==
    LET scale == Scale(original, max_width_inches, max_height_inches)
    IN [width |-> RatMul(original.width, scale),
        height |-> RatMul(original.height, scale)]

\* final_width and final_height, Lengths
FinalSize(scaled) == [width |-> Inches(scaled.width), height |-> Inches(scaled.height)]

MaxImages == 1

Section(pw, ph, left, right, top, bottom) ==
    [page_width |-> pw, page_height |-> ph, left_margin |-> left,
     right_margin |-> right, top_margin |-> top, bottom_margin |-> bottom]

\* 8.5 x 11 in with 1.25 in and 1 in margins (6 x 9 printable); Letter,
\* A4 (595 x 842 pt) and A5 (420 x 595 pt) with the 1 in margins of
\* _set_default_formatting
Sections ==
    {Section(7772400, 10058400, 1143000, 1143000, 914400, 914400),
     Section(7772400, 10058400, 914400, 914400, 914400, 914400),
     Section(7556500, 10693400, 914400, 914400, 914400, 914400),
     Section(5334000, 7556500, 914400, 914400, 914400, 914400)}

ImageWidths == {-72, 0, 100, 432, 720, 1000}
ImageHeights == {-72, 0, 100, 648, 960}
Images == [width : ImageWidths, height : ImageHeights]

InitImage ==
    /\ conversion_stats = ZeroStats
    /\ InstanceIdle
    /\ ParagraphIdle
    /\ WebIdle
    /\ TextIdle
    /\ CombineIdle
    /\ GroupIdle
    /\ RunIdle
    /\ copy \in {"converters", "root"}
    /\ docx_section \in Sections
    /\ docx_pictures = <<>>
    /\ image_log = <<>>

\* src/converters/modern_pdf2docx_converter.py
_add_image_to_document ==
    /\ copy = "converters"
    /\ Len(image_log) < MaxImages
    /\ \E image_data \in Images :
        LET original == OriginalInches(image_data)
            scaled == ScaledInches(original, MaxWidthInches(docx_section),
                                   MaxHeightInches(docx_section))
        IN /\ docx_pictures' = Append(docx_pictures, FinalSize(scaled))
           /\ image_log' = Append(image_log,
                  [image |-> image_data, outcome |-> "added", inches |-> scaled])
    /\ UNCHANGED <<instanceVars, paragraphVars, webVars, conversion_stats,
                   textVars, combineVars, copy, docx_section, groupVars,
                   runVars>>

\* src/modern_pdf2docx_converter.py: no defaults; a zero size raises
\* ZeroDivisionError, which the except clause logs as a warning.  The
\* difference of the section's Lengths is taken to have .inches, as the code
\* expects.
Root_add_image_to_document ==
    /\ copy = "root"
    /\ Len(image_log) < MaxImages
    /\ \E image_data \in Images :
        LET original == OriginalInchesRoot(image_data)
        IN IF original.width[1] = 0 \/ original.height[1] = 0
           THEN /\ docx_pictures' = docx_pictures
                /\ image_log' = Append(image_log,
                       [image |-> image_data, outcome |-> "warning", inches |-> None])
           ELSE LET scaled == ScaledInches(original, MaxWidthInches(docx_section),
                                           MaxHeightInches(docx_section))
                IN /\ docx_pictures' = Append(docx_pictures, FinalSize(scaled))
                   /\ image_log' = Append(image_log,
                          [image |-> image_data, outcome |-> "added", inches |-> scaled])
    /\ UNCHANGED <<instanceVars, paragraphVars, webVars, conversion_stats,
                   textVars, combineVars, copy, docx_section, groupVars,
                   runVars>>

NextImage == _add_image_to_document \/ Root_add_image_to_document

SpecImage == InitImage /\ [][NextImage]_vars

(***************************************************************************)
(* A page's text blocks: the position sort of _extract_text_with_layout    *)
(* and the clusters of _group_text_into_paragraphs.                        *)
(***************************************************************************)
\* ParagraphData(text_parts=..., y_position=...)
ParagraphData(text_parts_, y_position) ==
    [text_parts |-> text_parts_, y_position |-> y_position]

\* "Points threshold for same line"
y_threshold == 5

\* whether a's sort key (d * y, x) is at most b's; d = 1 sorts by (y, x),
\* d = -1 by (-y, x)
KeyLeq(a, b, d) == d * a.y < d * b.y \/ (a.y = b.y /\ a.x <= b.x)

\* a slip: the blocks are left in the order the page gives them
LeftUnsorted(blocks, d) == blocks

\* list.sort(key=...): stable, a block goes behind the blocks of the same key
RECURSIVE SortedByPosition(_, _)
SortedByPosition(blocks, d) ==
    IF blocks = <<>> THEN <<>>
    ELSE LET rest == SortedByPosition(SubSeq(blocks, 1, Len(blocks) - 1), d)
             b == blocks[Len(blocks)]
             n == Cardinality({i \in 1..Len(rest) : KeyLeq(rest[i], b, d)})
         IN SubSeq(rest, 1, n) \o <<b>> \o SubSeq(rest, n + 1, Len(rest))

\* ' '.join(strs)
RECURSIVE JoinSpaced(_)
JoinSpaced(strs) ==
    IF strs = <<>> THEN <<>>
    ELSE IF Len(strs) = 1 THEN Head(strs)
    ELSE Head(strs) \o <<" ">> \o JoinSpaced(Tail(strs))

\* src/converters/modern_pdf2docx_converter.py: the parts sorted by (y, x)
\* and combined into one text block at the first part's position
ExtractedTextBlocks(page_text_parts) ==
    LET parts == SortedByPosition(page_text_parts, 1)
    IN IF parts = <<>> THEN <<>>
       ELSE << [text |-> JoinSpaced([i \in 1..Len(parts) |-> parts[i].text]),
                x |-> parts[1].x, y |-> parts[1].y, parts |-> parts] >>

\* src/modern_pdf2docx_converter.py: the visitor's blocks sorted by (-y, x)
ExtractedTextBlocksRoot(visited) == SortedByPosition(visited, -1)

\* a slip: a block joins the open cluster when it is within the threshold of
\* the block before it
RECURSIVE GroupedAfterChained(_, _)
GroupedAfterChained(blocks, i) ==
    IF i = 0
    THEN [paragraphs |-> <<>>, current_paragraph |-> ParagraphData(<<>>, None)]
    ELSE LET before == GroupedAfterChained(blocks, i - 1)
             current == before.current_paragraph
             block == blocks[i]
         IN IF current.y_position = None
            THEN [before EXCEPT !.current_paragraph =
                        ParagraphData(Append(current.text_parts, block), Some(block.y))]
            ELSE IF Abs(block.y - blocks[i - 1].y) <= y_threshold
            THEN [before EXCEPT !.current_paragraph.text_parts = Append(@, block)]
            ELSE [paragraphs |-> Append(before.paragraphs, current),
                  current_paragraph |-> ParagraphData(<<block>>, Some(block.y))]

\* a slip: a block that is within the threshold of the cluster closed last is
\* put into that cluster
RECURSIVE GroupedAfterReassigned(_, _)
GroupedAfterReassigned(blocks, i) ==
    IF i = 0
    THEN [paragraphs |-> <<>>, current_paragraph |-> ParagraphData(<<>>, None)]
    ELSE LET before == GroupedAfterReassigned(blocks, i - 1)
             current == before.current_paragraph
             closed == before.paragraphs
             block == blocks[i]
         IN IF current.y_position = None
            THEN [before EXCEPT !.current_paragraph =
                        ParagraphData(Append(current.text_parts, block), Some(block.y))]
            ELSE IF Abs(block.y - Value(current.y_position)) <= y_threshold
            THEN [before EXCEPT !.current_paragraph.text_parts = Append(@, block)]
            ELSE IF /\ closed # <<>>
                    /\ Abs(block.y - Value(closed[Len(closed)].y_position)) <= y_threshold
            THEN [before EXCEPT !.paragraphs[Len(closed)].text_parts = Append(@, block)]
            ELSE [paragraphs |-> IF current.text_parts # <<>>
                                 THEN Append(before.paragraphs, current)
                                 ELSE before.paragraphs,
                  current_paragraph |-> ParagraphData(<<block>>, Some(block.y))]

\* paragraphs and current_paragraph after the first i rounds of
\* "for block in text_blocks"
RECURSIVE GroupedAfter(_, _)
GroupedAfter(blocks, i) ==
    IF i = 0
    THEN [paragraphs |-> <<>>, current_paragraph |-> ParagraphData(<<>>, None)]
    ELSE LET before == GroupedAfter(blocks, i - 1)
             current == before.current_paragraph
             block == blocks[i]
         IN IF current.y_position = None
            THEN [before EXCEPT !.current_paragraph =
                        ParagraphData(Append(current.text_parts, block), Some(block.y))]
            ELSE IF Abs(block.y - Value(current.y_position)) <= y_threshold
            THEN [before EXCEPT !.current_paragraph.text_parts = Append(@, block)]
            ELSE [paragraphs |-> IF current.text_parts # <<>>
                                 THEN Append(before.paragraphs, current)
                                 ELSE before.paragraphs,
                  current_paragraph |-> ParagraphData(<<block>>, Some(block.y))]

\* a slip: no early return, and the open cluster is always appended
GroupedWithOpenCluster(blocks) ==
    LET after == GroupedAfter(blocks, Len(blocks))
    IN Append(after.paragraphs, after.current_paragraph)

\* the list _group_text_into_paragraphs returns
GroupedParagraphs(blocks) ==
    IF blocks = <<>> THEN <<>>
    ELSE LET after == GroupedAfter(blocks, Len(blocks))
         IN IF after.current_paragraph.text_parts # <<>>
            THEN Append(after.paragraphs, after.current_paragraph)
            ELSE after.paragraphs

MaxBlocks == 3

BlockYs == {72, 76, 80, 200}
BlockXs == {10, 50}

RECURSIVE BlockLists(_)
BlockLists(n) ==
    IF n = 0 THEN {<<>>}
    ELSE LET shorter == BlockLists(n - 1)
         IN shorter \cup
            {Append(bs, TextBlock(<<"T">>, x, y)) :
                bs \in {q \in shorter : Len(q) = n - 1}, x \in BlockXs, y \in BlockYs}

Str_Para1 == <<"P","a","r","a","1">>
Str_Para2 == <<"P","a","r","a","2">>
Blocks_Para1Para2 == <<TextBlock(Str_Para1, 72, 72), TextBlock(Str_Para2, 72, 200)>>

InitGroup ==
    /\ conversion_stats = ZeroStats
    /\ InstanceIdle
    /\ ParagraphIdle
    /\ WebIdle
    /\ TextIdle
    /\ CombineIdle
    /\ RunIdle
    /\ copy \in {"converters", "root"}
    /\ docx_section = None
    /\ docx_pictures = <<>>
    /\ image_log = <<>>
    /\ text_blocks \in BlockLists(MaxBlocks) \cup {Blocks_Para1Para2}
    /\ layout = "page"
    /\ paragraphs = None

\* src/converters/modern_pdf2docx_converter.py
_extract_text_with_layout ==
    /\ copy = "converters"
    /\ layout = "page"
    /\ paragraphs = None
    /\ text_blocks' = ExtractedTextBlocks(text_blocks)
    /\ layout' = "extracted"
    /\ UNCHANGED <<instanceVars, paragraphVars, webVars, conversion_stats,
                   textVars, combineVars, imageVars, paragraphs, runVars>>

\* src/modern_pdf2docx_converter.py
Root_extract_text_with_layout ==
    /\ copy = "root"
    /\ layout = "page"
    /\ paragraphs = None
    /\ text_blocks' = ExtractedTextBlocksRoot(text_blocks)
    /\ layout' = "extracted"
    /\ UNCHANGED <<instanceVars, paragraphVars, webVars, conversion_stats,
                   textVars, combineVars, imageVars, paragraphs, runVars>>

\* called with the extractor's list, or with a list of the caller's
_group_text_into_paragraphs ==
    /\ paragraphs = None
    /\ paragraphs' = Some(GroupedParagraphs(text_blocks))
    /\ UNCHANGED <<instanceVars, paragraphVars, webVars, conversion_stats,
                   textVars, combineVars, imageVars, text_blocks, layout,
                   runVars>>

NextGroup ==
    \/ _extract_text_with_layout
    \/ Root_extract_text_with_layout
    \/ _group_text_into_paragraphs

SpecGroup == InitGroup /\ [][NextGroup]_vars

(***************************************************************************)
(* convert_pdf_to_docx: the pages are selected, extracted one by one, and  *)
(* given to the document one by one.                                       *)
(***************************************************************************)
\* Python's truth value of an Optional[list[int]] and of an Optional[int]
ListGiven(pages) == pages # None /\ Value(pages) # <<>>
IntGiven(n) == n # None /\ Value(n) # 0

Max(a, b) == IF a >= b THEN a ELSE b
Min(a, b) == IF a <= b THEN a ELSE b

\* list(range(start, end))
Range(start, end) == [i \in 1..Max(0, end - start) |-> start + i - 1]

\* [p for p in pages if 0 <= p < total]
RECURSIVE InRange(_, _)
InRange(pages, total) ==
    IF pages = <<>> THEN <<>>
    ELSE IF 0 <= Head(pages) /\ Head(pages) < total
         THEN <<Head(pages)>> \o InRange(Tail(pages), total)
         ELSE InRange(Tail(pages), total)

\* a slip: the start_page/end_page range is applied to the list as well
PageIndicesClamped(pages, start_page, end_page, total) ==
    LET start == Max(0, start_page)
        end == IF IntGiven(end_page) THEN Min(total, Value(end_page)) ELSE total
    IN IF ListGiven(pages) THEN InRange(SelectSeq(Value(pages), LAMBDA p : start <= p), end)
       ELSE Range(start, end)

\* "Determine which pages to process"
PageIndices(pages, start_page, end_page, total) ==
    IF ListGiven(pages) THEN InRange(Value(pages), total)
    ELSE LET start == Max(0, start_page)
             end == IF IntGiven(end_page) THEN Min(total, Value(end_page)) ELSE total
         IN Range(start, end)

(***************************************************************************)
(* _add_paragraph_to_document: a cluster becomes a paragraph of the        *)
(* document, with a run for each of its fragments; register_fonts and the  *)
(* font of a run.                                                          *)
(***************************************************************************)
LowerLetters == <<"a","b","c","d","e","f","g","h","i","j","k","l","m",
                  "n","o","p","q","r","s","t","u","v","w","x","y","z">>
UpperLetters == <<"A","B","C","D","E","F","G","H","I","J","K","L","M",
                  "N","O","P","Q","R","S","T","U","V","W","X","Y","Z">>

\* str.lower()
ToLower(s) ==
    [i \in 1..Len(s) |->
        IF s[i] \in Upper
        THEN LowerLetters[CHOOSE k \in 1..Len(UpperLetters) : UpperLetters[k] = s[i]]
        ELSE s[i]]

\* str.strip() returns '': every character is whitespace
IsBlank(s) == \A i \in 1..Len(s) : s[i] \in Whitespace

\* FontInfo(name=..., path=...)
FontInfo(name, path) == [name |-> name, path |-> path]

Str_Times_ttf == <<"f","/","T","i","m","e","s",".","t","t","f">>
Str_Gone_ttf == <<"f","/","G","o","n","e",".","t","t","f">>

\* the font files there are; Path(font_path).exists()
FontFiles == {Str_Times_ttf}

\* the last position of character c in s, 0 if there is none (str.rfind + 1)
LastIndexOf(s, c) ==
    IF \E i \in 1..Len(s) : s[i] = c
    THEN CHOOSE i \in 1..Len(s) : s[i] = c /\ \A j \in (i + 1)..Len(s) : s[j] # c
    ELSE 0

\* Path(font_path).stem: the last component, without its last suffix
Stem(font_path) ==
    LET name == SubSeq(font_path, LastIndexOf(font_path, "/") + 1, Len(font_path))
        dot == LastIndexOf(name, ".")
    IN IF 1 < dot /\ dot < Len(name) THEN SubSeq(name, 1, dot - 1) ELSE name

\* self.custom_fonts after register_fonts(font_paths)
RECURSIVE RegisteredFonts(_, _)
RegisteredFonts(fonts, font_paths) ==
    IF font_paths = <<>> THEN fonts
    ELSE LET font_path == Head(font_paths)
         IN RegisteredFonts(IF font_path \in FontFiles
                            THEN Append(fonts, FontInfo(Stem(font_path), font_path))
                            ELSE fonts,
                            Tail(font_paths))

\* _get_custom_font: the first registered font whose name holds font_name
CustomFont(font_name, fonts) ==
    LET matching == {k \in 1..Len(fonts) :
                        Contains(ToLower(fonts[k].name), ToLower(font_name))}
    IN IF matching = {} THEN None ELSE Some(fonts[Minimum(matching)])

Str_Calibri == <<"C","a","l","i","b","r","i">>
Str_Unknown == <<"U","n","k","n","o","w","n">>
Str_Times == <<"T","i","m","e","s">>
Str_Times_New_Roman == <<"T","i","m","e","s"," ","N","e","w"," ","R","o","m","a","n">>
Str_Helvetica == <<"H","e","l","v","e","t","i","c","a">>
Str_Arial == <<"A","r","i","a","l">>
Str_Courier == <<"C","o","u","r","i","e","r">>
Str_Courier_New == <<"C","o","u","r","i","e","r"," ","N","e","w">>
Str_Symbol == <<"S","y","m","b","o","l">>
Str_ZapfDingbats == <<"Z","a","p","f","D","i","n","g","b","a","t","s">>
Str_Wingdings == <<"W","i","n","g","d","i","n","g","s">>

\* font_mapping, in its order
font_mapping ==
    << <<Str_Times, Str_Times_New_Roman>>, <<Str_Helvetica, Str_Arial>>,
       <<Str_Courier, Str_Courier_New>>, <<Str_Symbol, Str_Symbol>>,
       <<Str_ZapfDingbats, Str_Wingdings>> >>

\* re.sub(r'^[A-Z]+\+', '', font_name)
WithoutSubsetPrefix(font_name) ==
    LET n == Cardinality({i \in 1..Len(font_name) :
                            \A j \in 1..i : font_name[j] \in Upper})
    IN IF n >= 1 /\ n < Len(font_name) /\ font_name[n + 1] = "+"
       THEN SubSeq(font_name, n + 2, Len(font_name))
       ELSE font_name

\* re.sub(r'[,\-].*$', '', font_name)
WithoutVariant(font_name) ==
    LET marks == {i \in 1..Len(font_name) : font_name[i] \in {",", "-"}}
    IN IF marks = {} THEN font_name ELSE SubSeq(font_name, 1, Minimum(marks) - 1)

\* _clean_font_name
CleanFontName(font_name) ==
    IF font_name = <<>> \/ font_name = Str_Unknown THEN Str_Calibri
    ELSE LET cleaned == WithoutVariant(WithoutSubsetPrefix(font_name))
             mapped == {k \in 1..Len(font_mapping) :
                          Contains(ToLower(cleaned), ToLower(font_mapping[k][1]))}
         IN IF mapped # {} THEN font_mapping[Minimum(mapped)][2]
            ELSE IF cleaned # <<>> THEN cleaned
            ELSE Str_Calibri

EmuPerPt == 12700
\* Pt(points), a Length
Pt(points) == points * EmuPerPt

\* what _apply_font_formatting sets on the run of text_part
RunFont(text_part, fonts) ==
    LET custom_font == CustomFont(text_part.font_name, fonts)
    IN [name |-> IF custom_font # None THEN Value(custom_font).name
                 ELSE CleanFontName(text_part.font_name),
        size |-> Pt(Max(8, Min(72, text_part.font_size)))]

\* paragraph.add_run(text_part['text']) with its font
Run(text_part, fonts) ==
    [text |-> text_part.text, font |-> RunFont(text_part, fonts)]

\* a slip: the cluster is flattened into one run, in the first fragment's font
ParagraphRunsFlattened(text_parts_, fonts) ==
    << [text |-> Join([i \in 1..Len(text_parts_) |-> text_parts_[i].text]),
        font |-> RunFont(text_parts_[1], fonts)] >>

\* the runs of the paragraph added for a cluster
ParagraphRuns(text_parts_, fonts) ==
    [i \in 1..Len(text_parts_) |-> Run(text_parts_[i], fonts)]

\* self.docx_document's paragraphs after _add_paragraph_to_document
ParagraphsAfterAdd(docx_paragraphs_, text_parts_, fonts) ==
    IF IsBlank(CombinedText(text_parts_)) THEN docx_paragraphs_
    ELSE Append(docx_paragraphs_, ParagraphRuns(text_parts_, fonts))

Str_ABC_Helvetica_Bold ==
    <<"A","B","C","+","H","e","l","v","e","t","i","c","a","-","B","o","l","d">>
Str_Garamond_Italic == <<"G","a","r","a","m","o","n","d",",","I","t","a","l","i","c">>
Str_Garamond == <<"G","a","r","a","m","o","n","d">>

\* fragments of a cluster: text and x, font name and size
FragmentTexts == {<< <<"o">>, 0 >>, << <<"T">>, 5 >>, << <<"T">>, 40 >>, << <<"o", "T">>, 40 >>}
FragmentFonts == {<<Str_Unknown, 12>>, <<Str_Times, 6>>, <<Str_ABC_Helvetica_Bold, 100>>,
                  <<Str_Garamond_Italic, 12>>}

Fragment(t, x, font_name, font_size) ==
    [text |-> t, x |-> x, y |-> 72, font_name |-> font_name, font_size |-> font_size]

RECURSIVE FragmentLists(_)
FragmentLists(n) ==
    IF n = 0 THEN {}
    ELSE FragmentLists(n - 1) \cup
         {Append(fs, Fragment(t[1], t[2], f[1], f[2])) :
            fs \in IF n = 1 THEN {<<>>} ELSE {q \in FragmentLists(n - 1) : Len(q) = n - 1},
            t \in FragmentTexts, f \in FragmentFonts}

FontPathLists == {None, Some(<<Str_Times_ttf>>), Some(<<Str_Gone_ttf, Str_Times_ttf>>)}

InitParagraph ==
    /\ conversion_stats = ZeroStats
    /\ InstanceIdle
    /\ ParagraphIdle
    /\ WebIdle
    /\ TextIdle
    /\ ImageIdle
    /\ GroupIdle
    /\ RunIdle
    /\ text_parts \in FragmentLists(MaxParts)
    /\ combined_parts = <<>>
    /\ combined_text = None

\* register_fonts(font_paths), before the document is written
register_fonts ==
    /\ custom_fonts = <<>>
    /\ combined_text = None
    /\ \E font_paths \in FontPathLists :
          custom_fonts' = IF ListGiven(font_paths)
                          THEN RegisteredFonts(custom_fonts, Value(font_paths))
                          ELSE custom_fonts
    /\ UNCHANGED <<conversion_stats, textVars, combineVars, imageVars,
                   groupVars, runVars, earlier_calls, template_document,
                   paragraphVars, webVars>>

\* _add_paragraph_to_document(ParagraphData(text_parts=text_parts)), with its
\* call of _combine_text_with_spacing
_add_paragraph_to_document ==
    /\ combined_text = None
    /\ combined_parts' = CombinedPartsAfter(text_parts, Len(text_parts))
    /\ combined_text' = Some(CombinedText(text_parts))
    /\ conversion_stats' = StatsAfterCombine(conversion_stats, text_parts)
    /\ docx_paragraphs' = ParagraphsAfterAdd(docx_paragraphs, text_parts, custom_fonts)
    /\ UNCHANGED <<text_parts, textVars, imageVars, groupVars, runVars,
                   instanceVars, webVars>>

NextParagraph == register_fonts \/ _add_paragraph_to_document

SpecParagraph == InitParagraph /\ [][NextParagraph]_vars

(***************************************************************************)
(* The PDF a run reads, the arguments of the call and the steps of the     *)
(* run.                                                                    *)
(***************************************************************************)
\* what reading a page of the PDF gives.  txt and imgs: "ok" (the page has
\* one text block, one image), "none" (it has none) or "fails" (reading them
\* raises, in every mode of reading); size: "ok" or "fails" (page.mediabox
\* raises) or "small" (a page of 100 x 100 pt; "ok" is 612 x 792 pt)
Page(txt, imgs, size) == [text |-> txt, images |-> imgs, size |-> size]

WholePage == Page("ok", "ok", "ok")
BlankPage == Page("none", "none", "ok")
TextFailsPage == Page("fails", "ok", "ok")
ImagesFailPage == Page("ok", "fails", "ok")
SizeFailsPage == Page("ok", "ok", "fails")
SmallPage == Page("ok", "ok", "small")

PageKinds == {WholePage, BlankPage, TextFailsPage, ImagesFailPage, SizeFailsPage,
              SmallPage}

\* page.mediabox, in points
PageSize(page) ==
    IF page.size = "small" THEN [width |-> 100, height |-> 100]
    ELSE [width |-> 612, height |-> 792]

\* the file at pdf_path
PdfFile(encrypted, pages) == [encrypted |-> encrypted, pages |-> pages]

\* n pages with text and an image each
WholePages(n) == [i \in 1..n |-> WholePage]

\* the password that opens an encrypted file of the model
Passwords == {None, Some("owner"), Some("wrong")}
\* "if password"
PasswordGiven(password) == password # None /\ Value(password) # ""
\* authenticate(password) / decrypt(password)
Authenticates(password) == password = Some("owner")

\* the document object once the file is open
OpenedDocument(file, authenticated) ==
    Some([needs_pass |-> file.encrypted, authenticated |-> authenticated,
          is_closed |-> FALSE])
\* document.close()
Closed(doc) == Some([Value(doc) EXCEPT !.is_closed = TRUE])

\* output paths: a new file in the working directory, the null device, a
\* file in a directory that does not exist
OutputPaths == {"out.docx", "/dev/null", "/missing/out.docx"}
\* document.save(output_path) raises where the file cannot be created
SaveRaises(output_path) == output_path = "/missing/out.docx"
\* the file at output_path before the run, and once save has returned: what
\* is written to the null device is dropped
FileBeforeSave(output_path) == IF output_path = "/dev/null" THEN "empty" ELSE "absent"
FileAfterSave(output_path) == IF output_path = "/dev/null" THEN "empty" ELSE "written"

\* a slip: the except clause reports another status
ErrorResultFailed(error) == [status |-> "failed", error |-> error]

\* {'status': 'error', 'error': ...}
ErrorResult(error) == [status |-> "error", error |-> error]

\* the text blocks and the images the extractors return for a page
PageTextBlocks(page) ==
    IF page.text = "ok" THEN <<TextBlock(<<"o", "T">>, 72, 72)>> ELSE <<>>
PageImages(page, page_idx) ==
    IF page.images = "ok"
    THEN << [width |-> 100, height |-> 100, page_number |-> page_idx, index |-> 0] >>
    ELSE <<>>

\* PageContent of page page_idx
PageContent(page_idx, page) ==
    [page_number |-> page_idx,
     text_blocks |-> PageTextBlocks(page),
     images |-> PageImages(page, page_idx),
     page_size |-> PageSize(page)]

\* template paths: a template of A5 pages with 1 in margins, and a path with
\* no file
TemplatePaths == {None, Some("a5.docx"), Some("missing.docx")}
\* "template_path and Path(template_path).exists()", and Document() opens it
TemplateLoads(template_path) == template_path = Some("a5.docx")
\* Document(template_path).sections[0]
TemplateSection(template_path) ==
    Section(5334000, 7556500, 914400, 914400, 914400, 914400)
\* Document().sections[0]: Letter, margins of 1.25 in and 1 in
NewDocumentSection == Section(7772400, 10058400, 1143000, 1143000, 914400, 914400)

\* self.template_document after "template_path and self.load_template(...)"
TemplateDocumentAfterLoad(template_document_, template_path) ==
    IF TemplateLoads(template_path) THEN Some(TemplateSection(template_path))
    ELSE template_document_

\* the section after _set_default_formatting: the first page's size, in
\* inches at 72 points to the inch, and margins of 1 in
DefaultFormatting(section, pages) ==
    IF pages = <<>> THEN section
    ELSE Section(Inches(Rat(pages[1].page_size.width, 72)),
                 Inches(Rat(pages[1].page_size.height, 72)),
                 Inches(<<1, 1>>), Inches(<<1, 1>>), Inches(<<1, 1>>), Inches(<<1, 1>>))

\* self.docx_document.sections[0] after _apply_template_formatting, for
\* self.template_document as it is then
DocumentSection(template_document_, template_path, pages) ==
    LET section == IF TemplateLoads(template_path) THEN TemplateSection(template_path)
                   ELSE NewDocumentSection
    IN IF template_document_ = None THEN DefaultFormatting(section, pages)
       ELSE Value(template_document_)

MaxPages == 2
MaxList == 2

RECURSIVE ListsUpTo(_, _)
ListsUpTo(n, values) ==
    IF n = 0 THEN {<<>>}
    ELSE LET shorter == ListsUpTo(n - 1, values)
         IN shorter \cup {Append(l, v) : l \in {m \in shorter : Len(m) = n - 1},
                                         v \in values}

\* page numbers a caller may list: in range, below it, above it
PageArguments == -1..MaxPages
StartArguments == {-1, 0, 1}
EndArguments == {None, Some(0), Some(1), Some(MaxPages + 1)}

\* calls on a PDF that opens and reads without failure
Calls ==
    [pages : {None} \cup {Some(l) : l \in ListsUpTo(MaxList, PageArguments)},
     start_page : StartArguments,
     end_page : EndArguments,
     password : {None},
     output_path : {"out.docx"},
     template_path : {None},
     font_paths : {None}]

\* pages=[0, 5, 99] for a PDF of 10 pages
Call_0_5_99 ==
    [pages |-> Some(<<0, 5, 99>>), start_page |-> 0, end_page |-> None,
     password |-> None, output_path |-> "out.docx", template_path |-> None,
     font_paths |-> None]

\* calls on a PDF that is missing, encrypted or damaged, and calls whose
\* output cannot be written: every page from start_page on
FailureCalls ==
    [pages : {None},
     start_page : {0, MaxPages},
     end_page : {None},
     password : Passwords,
     output_path : OutputPaths,
     template_path : {None},
     font_paths : {None}]

InitRun ==
    /\ conversion_stats = ZeroStats
    /\ InstanceIdle
    /\ ParagraphIdle
    /\ WebIdle
    /\ TextIdle
    /\ CombineIdle
    /\ GroupIdle
    /\ copy \in {"converters", "root", "advanced"}
    /\ docx_section = None
    /\ docx_pictures = <<>>
    /\ image_log = <<>>
       \* any selection, of a PDF that reads well
    /\ \/ /\ call \in Calls
          /\ pdf_file \in {Some(PdfFile(FALSE, WholePages(n))) : n \in 0..MaxPages}
       \/ /\ call = Call_0_5_99
          /\ pdf_file = Some(PdfFile(FALSE, WholePages(10)))
       \* a PDF with blank pages and pages that fail to read
       \/ /\ call \in {c \in FailureCalls : c.password = None}
          /\ pdf_file \in {Some(PdfFile(FALSE, ps)) : ps \in ListsUpTo(MaxPages, PageKinds)}
       \* no file to open, or an encrypted one
       \/ /\ call \in FailureCalls
          /\ pdf_file \in {None} \cup {Some(PdfFile(TRUE, WholePages(n))) : n \in 1..MaxPages}
    /\ total_pages = IF pdf_file = None THEN 0 ELSE Len(Value(pdf_file).pages)
    /\ pdf_document = None
    /\ pc = "call"
    /\ page_indices = <<>>
    /\ extracted_pages = <<>>
    /\ document = <<>>
    /\ output_file = FileBeforeSave(call.output_path)
    /\ result = None

\* convert_pdf_to_docx up to its call of extract_pdf_content
convert_pdf_to_docx ==
    /\ copy \in {"converters", "root"}
    /\ pc = "call"
    /\ conversion_stats' = ZeroStats
    /\ custom_fonts' = IF ListGiven(call.font_paths)
                       THEN RegisteredFonts(custom_fonts, Value(call.font_paths))
                       ELSE custom_fonts
    /\ pc' = "extract"
    /\ UNCHANGED <<earlier_calls, template_document, paragraphVars, webVars,
                   textVars, combineVars, imageVars, groupVars, call, pdf_file,
                   total_pages, pdf_document, page_indices, extracted_pages,
                   document, output_file, result>>

\* extract_pdf_content up to its loop.  Where it raises, its except clause
\* returns {} and convert_pdf_to_docx returns an error; where fitz.open
\* raised, the finally clause calls close() on the None of __init__, and that
\* exception reaches the except clause of convert_pdf_to_docx
extract_pdf_content ==
    /\ copy = "converters"
    /\ pc = "extract"
    /\ IF pdf_file = None
       THEN /\ result' = ErrorResult("Conversion failed: 'NoneType' object has no attribute 'close'")
            /\ pc' = "done"
            /\ UNCHANGED <<pdf_document, page_indices, extracted_pages>>
       ELSE IF /\ Value(pdf_file).encrypted
               /\ ~(PasswordGiven(call.password) /\ Authenticates(call.password))
       THEN /\ pdf_document' = Closed(OpenedDocument(Value(pdf_file), FALSE))
            /\ result' = ErrorResult("Failed to extract PDF content")
            /\ pc' = "done"
            /\ UNCHANGED <<page_indices, extracted_pages>>
       ELSE /\ pdf_document' = OpenedDocument(Value(pdf_file), Value(pdf_file).encrypted)
            /\ page_indices' = PageIndices(call.pages, call.start_page, call.end_page,
                                           total_pages)
            /\ extracted_pages' = <<>>
            /\ pc' = "pages"
            /\ UNCHANGED result
    /\ UNCHANGED <<instanceVars, paragraphVars, webVars, conversion_stats,
                   textVars, combineVars, imageVars, groupVars, call, pdf_file,
                   total_pages, document, output_file>>

\* src/modern_pdf2docx_converter.py: decrypt's return value is not looked at;
\* pypdf refuses to read the pages of a file that has not been decrypted
Root_extract_pdf_content ==
    /\ copy = "root"
    /\ pc = "extract"
    /\ IF pdf_file = None
       THEN /\ result' = ErrorResult("Failed to extract PDF content")
            /\ pc' = "done"
            /\ UNCHANGED <<pdf_document, page_indices, extracted_pages>>
       ELSE IF Value(pdf_file).encrypted /\ ~PasswordGiven(call.password)
       THEN /\ pdf_document' = OpenedDocument(Value(pdf_file), FALSE)
            /\ result' = ErrorResult("Failed to extract PDF content")
            /\ pc' = "done"
            /\ UNCHANGED <<page_indices, extracted_pages>>
       ELSE IF Value(pdf_file).encrypted /\ ~Authenticates(call.password)
       THEN /\ pdf_document' = OpenedDocument(Value(pdf_file), FALSE)
            /\ result' = ErrorResult("Failed to extract PDF content")
            /\ pc' = "done"
            /\ UNCHANGED <<page_indices, extracted_pages>>
       ELSE /\ pdf_document' = OpenedDocument(Value(pdf_file), Value(pdf_file).encrypted)
            /\ page_indices' = PageIndices(call.pages, call.start_page, call.end_page,
                                           total_pages)
            /\ extracted_pages' = <<>>
            /\ pc' = "pages"
            /\ UNCHANGED result
    /\ UNCHANGED <<instanceVars, paragraphVars, webVars, conversion_stats,
                   textVars, combineVars, imageVars, groupVars, call, pdf_file,
                   total_pages, document, output_file>>

\* one round of "for page_idx in page_indices".  A failure to read the text
\* or the images is caught where it happens; page.mediabox is read outside
\* any try of the round, so its failure ends extract_pdf_content
_extract_page_content ==
    /\ copy = "converters"
    /\ pc = "pages"
    /\ Len(extracted_pages) < Len(page_indices)
    /\ LET page_idx == page_indices[Len(extracted_pages) + 1]
           page == Value(pdf_file).pages[page_idx + 1]
       IN IF page.size = "fails"
          THEN /\ pdf_document' = Closed(pdf_document)
               /\ result' = ErrorResult("Failed to extract PDF content")
               /\ pc' = "done"
               /\ UNCHANGED <<conversion_stats, extracted_pages>>
          ELSE /\ extracted_pages' = Append(extracted_pages, PageContent(page_idx, page))
               /\ conversion_stats' = [conversion_stats EXCEPT !.pages_processed = @ + 1]
               /\ UNCHANGED <<pdf_document, pc, result>>
    /\ UNCHANGED <<instanceVars, paragraphVars, webVars, textVars, combineVars,
                   imageVars, groupVars, call, pdf_file, total_pages,
                   page_indices, document, output_file>>

\* src/modern_pdf2docx_converter.py: the fallback page.extract_text() stands
\* in the except clause, outside any try; the text blocks and the images are
\* counted
Root_extract_page_content ==
    /\ copy = "root"
    /\ pc = "pages"
    /\ Len(extracted_pages) < Len(page_indices)
    /\ LET page_idx == page_indices[Len(extracted_pages) + 1]
           page == Value(pdf_file).pages[page_idx + 1]
           page_content == PageContent(page_idx, page)
       IN IF page.size = "fails" \/ page.text = "fails"
          THEN /\ result' = ErrorResult("Failed to extract PDF content")
               /\ pc' = "done"
               /\ UNCHANGED <<conversion_stats, extracted_pages>>
          ELSE /\ extracted_pages' = Append(extracted_pages, page_content)
               /\ conversion_stats' =
                    [conversion_stats EXCEPT
                        !.text_blocks_extracted = @ + Len(page_content.text_blocks),
                        !.images_extracted = @ + Len(page_content.images),
                        !.pages_processed = @ + 1]
               /\ UNCHANGED <<pc, result>>
    /\ UNCHANGED <<instanceVars, paragraphVars, webVars, textVars, combineVars,
                   imageVars, groupVars, call, pdf_file, total_pages,
                   pdf_document, page_indices, document, output_file>>

\* extract_pdf_content returns (under src/converters/ its finally clause
\* closes the document); create_docx_document up to its loop: the template
\* is loaded if one is given, and the section gets the template's geometry
\* or the first page's
create_docx_document ==
    /\ copy \in {"converters", "root"}
    /\ pc = "pages"
    /\ Len(extracted_pages) = Len(page_indices)
    /\ pdf_document' = IF copy = "converters" THEN Closed(pdf_document) ELSE pdf_document
    /\ document' = <<>>
    /\ template_document' = TemplateDocumentAfterLoad(template_document, call.template_path)
    /\ docx_section' = DocumentSection(template_document', call.template_path,
                                       extracted_pages)
    /\ pc' = "process"
    /\ UNCHANGED <<earlier_calls, custom_fonts, paragraphVars, webVars,
                   conversion_stats, textVars, combineVars, copy, docx_pictures,
                   image_log, groupVars, call, pdf_file, total_pages,
                   page_indices, extracted_pages, output_file, result>>

\* the pages of extracted_pages whose content the document has been given
Processed(doc) == SelectSeq(doc, LAMBDA b : b.kind = "page")

\* what _process_page_content gives the document for a page: a paragraph for
\* each cluster of its text blocks, then a picture for each of its images
PageBlock(page_content) ==
    [kind |-> "page", page |-> page_content.page_number,
     paragraphs |-> Len(GroupedParagraphs(page_content.text_blocks)),
     pictures |-> Len(page_content.images)]

\* f[1] + ... + f[n]
RECURSIVE SumTo(_, _)
SumTo(f, n) == IF n = 0 THEN 0 ELSE SumTo(f, n - 1) + f[n]

\* self.conversion_stats after _add_paragraph_to_document has been called for
\* each of the paragraphs: _fix_text_spacing counts its repairs
StatsAfterParagraphs(st, paragraphs_) ==
    LET fixes == [k \in 1..Len(paragraphs_) |->
                    StatsAfterCombine(ZeroStats, paragraphs_[k].text_parts)
                        .spacing_fixes_applied]
    IN [st EXCEPT !.spacing_fixes_applied = @ + SumTo(fixes, Len(paragraphs_))]

\* the repairs counted for a page that has text: every such page of the model
\* has the text blocks of WholePage
WholePageFixes ==
    StatsAfterParagraphs(ZeroStats, GroupedParagraphs(PageTextBlocks(WholePage)))
        .spacing_fixes_applied

\* self.conversion_stats after the call of _process_page_content for the next
\* page: a page without text blocks has no paragraphs
StatsAfterPage(st, doc, pages) ==
    IF pages[Len(Processed(doc)) + 1].text_blocks = <<>> THEN st
    ELSE [st EXCEPT !.spacing_fixes_applied = @ + WholePageFixes]

\* document.add_page_break()
PageBreak(page_number) == [kind |-> "page_break", page |-> page_number]

\* the document after a call of _process_page_content in the loop of
\* create_docx_document: the page's blocks, and a page break unless the page
\* is the last of the list ("page_content != pdf_content['pages'][-1]")
DocumentAfterPage(doc, pages) ==
    LET page_content == pages[Len(Processed(doc)) + 1]
        given == Append(doc, PageBlock(page_content))
    IN IF page_content # pages[Len(pages)]
       THEN Append(given, PageBreak(page_content.page_number))
       ELSE given

\* one round of "for page_content in extracted_content['pages']"; the
\* PageContent are compared by value
_process_page_content ==
    /\ copy \in {"converters", "root"}
    /\ pc = "process"
    /\ Len(Processed(document)) < Len(extracted_pages)
    /\ document' = DocumentAfterPage(document, extracted_pages)
    /\ conversion_stats' = StatsAfterPage(conversion_stats, document, extracted_pages)
    /\ UNCHANGED <<instanceVars, paragraphVars, webVars, textVars, combineVars,
                   imageVars, groupVars, call, pdf_file, total_pages,
                   pdf_document, pc, page_indices, extracted_pages, output_file,
                   result>>

\* create_docx_document returns; document.save and the result
convert_pdf_to_docx_return ==
    /\ copy \in {"converters", "root"}
    /\ pc = "process"
    /\ Len(Processed(document)) = Len(extracted_pages)
    /\ IF SaveRaises(call.output_path)
       THEN /\ result' = ErrorResult("Conversion failed: [Errno 2] No such file or directory")
            /\ UNCHANGED output_file
       ELSE /\ output_file' = FileAfterSave(call.output_path)
            /\ result' = [status |-> "success", output_path |-> call.output_path,
                          stats |-> conversion_stats,
                          pages_converted |-> Len(page_indices)]
    /\ pc' = "done"
    /\ UNCHANGED <<instanceVars, paragraphVars, webVars, conversion_stats,
                   textVars, combineVars, imageVars, groupVars, call, pdf_file,
                   total_pages, pdf_document, page_indices, extracted_pages,
                   document>>

(***************************************************************************)
(* AdvancedPDF2DOCXConverter.convert_pdf_to_docx                           *)
(* (src/advanced_pdf2docx_converter.py): one method opens the PDF, selects *)
(* the pages, gives them to the document one by one, saves and verifies.   *)
(***************************************************************************)
\* up to the loop.  The password is tried only if one is given; needs_pass
\* is not looked at.  For a document that has not been authenticated
\* len(pdf_doc) gives the page count, or raises where the library cannot
\* read the page tree
Advanced_convert_pdf_to_docx ==
    /\ copy = "advanced"
    /\ pc = "call"
    /\ IF pdf_file = None
       THEN /\ result' = ErrorResult("no such file")
            /\ pc' = "done"
            /\ UNCHANGED <<pdf_document, page_indices>>
       ELSE IF PasswordGiven(call.password) /\ ~Authenticates(call.password)
       THEN /\ pdf_document' = OpenedDocument(Value(pdf_file), FALSE)
            /\ result' = ErrorResult("Invalid password")
            /\ pc' = "done"
            /\ UNCHANGED page_indices
       ELSE \/ /\ pdf_document' = OpenedDocument(Value(pdf_file),
                                     PasswordGiven(call.password) /\ Value(pdf_file).encrypted)
               /\ page_indices' = PageIndices(call.pages, call.start_page, call.end_page,
                                              total_pages)
               /\ pc' = "pages"
               /\ UNCHANGED result
            \/ /\ Value(pdf_file).encrypted
               /\ ~PasswordGiven(call.password)
               /\ pdf_document' = OpenedDocument(Value(pdf_file), FALSE)
               /\ result' = ErrorResult("cannot read the page tree")
               /\ pc' = "done"
               /\ UNCHANGED page_indices
    /\ UNCHANGED <<instanceVars, paragraphVars, webVars, conversion_stats,
                   textVars, combineVars, imageVars, groupVars, call, pdf_file,
                   total_pages, extracted_pages, document, output_file>>

\* one round of "for page_num in page_list".  pdf_doc[page_num] raises for a
\* document that needs a password and has not been authenticated;
\* extract_text_blocks and page.get_images() stand outside any try of the
\* round; every exception reaches the except clause of the method
Advanced_process_page ==
    /\ copy = "advanced"
    /\ pc = "pages"
    /\ Len(extracted_pages) < Len(page_indices)
    /\ LET page_num == page_indices[Len(extracted_pages) + 1]
           page == Value(pdf_file).pages[page_num + 1]
           page_content == PageContent(page_num, page)
           broken == IF page_num > page_indices[1]
                     THEN Append(document, PageBreak(page_num))
                     ELSE document
       IN IF Value(pdf_document).needs_pass /\ ~Value(pdf_document).authenticated
          THEN /\ result' = ErrorResult("document closed or encrypted")
               /\ pc' = "done"
               /\ UNCHANGED <<extracted_pages, document>>
          ELSE IF page.text = "fails" \/ page.images = "fails"
          THEN /\ result' = ErrorResult("cannot read the page")
               /\ pc' = "done"
               /\ UNCHANGED <<extracted_pages, document>>
          ELSE /\ extracted_pages' = Append(extracted_pages, page_content)
               /\ document' = Append(broken,
                      [kind |-> "page", page |-> page_num,
                       paragraphs |-> Len(page_content.text_blocks),
                       pictures |-> Len(page_content.images)])
               /\ UNCHANGED <<pc, result>>
    /\ UNCHANGED <<instanceVars, paragraphVars, webVars, conversion_stats,
                   textVars, combineVars, imageVars, groupVars, call, pdf_file,
                   total_pages, pdf_document, page_indices, output_file>>

\* doc.save, pdf_doc.close() and "Verify output"
Advanced_save ==
    /\ copy = "advanced"
    /\ pc = "pages"
    /\ Len(extracted_pages) = Len(page_indices)
    /\ IF SaveRaises(call.output_path)
       THEN /\ result' = ErrorResult("[Errno 2] No such file or directory")
            /\ UNCHANGED <<output_file, pdf_document>>
       ELSE /\ output_file' = FileAfterSave(call.output_path)
            /\ pdf_document' = Closed(pdf_document)
            /\ result' = IF FileAfterSave(call.output_path) = "written"
                         THEN [status |-> "success", output_path |-> call.output_path,
                               pages_processed |-> Len(page_indices)]
                         ELSE ErrorResult("Output file was not created or is empty")
    /\ pc' = "done"
    /\ UNCHANGED <<instanceVars, paragraphVars, webVars, conversion_stats,
                   textVars, combineVars, imageVars, groupVars, call, pdf_file,
                   total_pages, page_indices, extracted_pages, document>>

NextRun ==
    \/ convert_pdf_to_docx
    \/ extract_pdf_content
    \/ Root_extract_pdf_content
    \/ _extract_page_content
    \/ Root_extract_page_content
    \/ create_docx_document
    \/ _process_page_content
    \/ convert_pdf_to_docx_return
    \/ Advanced_convert_pdf_to_docx
    \/ Advanced_process_page
    \/ Advanced_save

Spec == InitRun /\ [][NextRun]_vars

(***************************************************************************)
(* One converter object called more than once.  self.template_document and *)
(* self.custom_fonts are set in __init__ and by load_template and          *)
(* register_fonts, and by nothing else; convert_pdf_to_docx resets         *)
(* self.conversion_stats alone.                                            *)
(***************************************************************************)
\* the calls a converter may get in a row
MaxRuns == 2

\* calls that convert every page of a PDF that reads well
ReuseCalls ==
    [pages : {None},
     start_page : {0},
     end_page : {None},
     password : {None},
     output_path : {"out.docx"},
     template_path : TemplatePaths,
     font_paths : FontPathLists]

InitReuse ==
    /\ conversion_stats = ZeroStats
    /\ InstanceIdle
    /\ ParagraphIdle
    /\ WebIdle
    /\ TextIdle
    /\ CombineIdle
    /\ GroupIdle
    /\ copy \in {"converters", "root"}
    /\ docx_section = None
    /\ docx_pictures = <<>>
    /\ image_log = <<>>
    /\ call \in ReuseCalls
    /\ pdf_file \in {Some(PdfFile(FALSE, ps)) : ps \in {WholePages(1), <<SmallPage>>}}
    /\ total_pages = Len(Value(pdf_file).pages)
    /\ pdf_document = None
    /\ pc = "call"
    /\ page_indices = <<>>
    /\ extracted_pages = <<>>
    /\ document = <<>>
    /\ output_file = FileBeforeSave(call.output_path)
    /\ result = None

\* the next call of convert_pdf_to_docx on the object, once the last one has
\* returned: new arguments and new locals; the fields of self stay
Again_convert_pdf_to_docx ==
    /\ copy \in {"converters", "root"}
    /\ pc = "done"
    /\ Len(earlier_calls) + 1 < MaxRuns
    /\ earlier_calls' = Append(earlier_calls, call)
    /\ call' \in ReuseCalls
    /\ page_indices' = <<>>
    /\ extracted_pages' = <<>>
    /\ result' = None
    /\ pc' = "call"
    /\ UNCHANGED <<template_document, custom_fonts, paragraphVars, webVars,
                   conversion_stats, textVars, combineVars, imageVars,
                   groupVars, pdf_file, total_pages, pdf_document, document,
                   output_file>>

NextReuse ==
    \/ convert_pdf_to_docx
    \/ extract_pdf_content
    \/ Root_extract_pdf_content
    \/ _extract_page_content
    \/ Root_extract_page_content
    \/ create_docx_document
    \/ _process_page_content
    \/ convert_pdf_to_docx_return
    \/ Again_convert_pdf_to_docx

SpecReuse == InitReuse /\ [][NextReuse]_vars

(***************************************************************************)
(* PDFExtractor.extract_content (src/core/pdf_extraction.py): the PDF is   *)
(* opened, the pages are selected and read one by one; the except clause   *)
(* returns {} and the finally clause closes self.pdf_document.             *)
(***************************************************************************)
\* self.conversion_stats of PDFExtractor.__init__
ExtractorZeroStats ==
    [pages_processed |-> 0, text_blocks_extracted |-> 0, images_extracted |-> 0]

\* {}
EmptyDict == <<>>
\* how a call ends: "return value", or an exception that leaves the method
Returned(value) == [status |-> "returned", value |-> value]
Raised(error) == [status |-> "raised", error |-> error]

\* the dict extract_content builds
ExtractedDict(pages, indices) ==
    [pages |-> pages, total_pages |-> Len(indices), page_indices |-> indices]

\* calls of extract_content: every page from start_page on
ExtractCalls == {c \in FailureCalls : c.output_path = "out.docx"}

InitExtract ==
    /\ conversion_stats = ExtractorZeroStats
    /\ InstanceIdle
    /\ ParagraphIdle
    /\ WebIdle
    /\ TextIdle
    /\ CombineIdle
    /\ GroupIdle
    /\ copy = "core"
    /\ docx_section = None
    /\ docx_pictures = <<>>
    /\ image_log = <<>>
    /\ call \in ExtractCalls
    /\ pdf_file \in {None}
          \cup {Some(PdfFile(TRUE, WholePages(n))) : n \in 1..MaxPages}
          \cup {Some(PdfFile(FALSE, ps)) : ps \in ListsUpTo(MaxPages, PageKinds)}
    /\ total_pages = IF pdf_file = None THEN 0 ELSE Len(Value(pdf_file).pages)
    /\ pdf_document = None
    /\ pc = "extract"
    /\ page_indices = <<>>
    /\ extracted_pages = <<>>
    /\ document = <<>>
    /\ output_file = "absent"
    /\ result = None

\* extract_content up to its loop.  Where fitz.open raises, the except clause
\* returns {} and the finally clause then calls close() on the None of
\* __init__: that AttributeError leaves the method in place of the {}
PDFExtractor_extract_content ==
    /\ copy = "core"
    /\ pc = "extract"
    /\ IF pdf_file = None
       THEN /\ result' = Raised("'NoneType' object has no attribute 'close'")
            /\ pc' = "done"
            /\ UNCHANGED <<pdf_document, page_indices>>
       ELSE IF /\ Value(pdf_file).encrypted
               /\ ~(PasswordGiven(call.password) /\ Authenticates(call.password))
       THEN /\ pdf_document' = Closed(OpenedDocument(Value(pdf_file), FALSE))
            /\ result' = Returned(EmptyDict)
            /\ pc' = "done"
            /\ UNCHANGED page_indices
       ELSE /\ pdf_document' = OpenedDocument(Value(pdf_file), Value(pdf_file).encrypted)
            /\ page_indices' = PageIndices(call.pages, call.start_page, call.end_page,
                                           total_pages)
            /\ pc' = "pages"
            /\ UNCHANGED result
    /\ UNCHANGED <<instanceVars, paragraphVars, webVars, conversion_stats,
                   textVars, combineVars, imageVars, groupVars, call, pdf_file,
                   total_pages, extracted_pages, document, output_file>>

\* self.conversion_stats after _extract_page_content and the round of the loop
ExtractorStatsAfterPage(st, page_content) ==
    [st EXCEPT !.text_blocks_extracted = @ + Len(page_content.text_blocks),
               !.images_extracted = @ + Len(page_content.images),
               !.pages_processed = @ + 1]

\* one round of "for page_idx in page_indices".  A failure to read the text or
\* the images is caught where it happens; page.mediabox is read outside any
\* try of the round, so its failure reaches the except clause
PDFExtractor_extract_page_content ==
    /\ copy = "core"
    /\ pc = "pages"
    /\ Len(extracted_pages) < Len(page_indices)
    /\ IF Value(pdf_file).pages[page_indices[Len(extracted_pages) + 1] + 1].size = "fails"
       THEN /\ pdf_document' = Closed(pdf_document)
            /\ result' = Returned(EmptyDict)
            /\ pc' = "done"
            /\ UNCHANGED <<conversion_stats, extracted_pages>>
       ELSE /\ extracted_pages' =
                 Append(extracted_pages,
                        PageContent(page_indices[Len(extracted_pages) + 1],
                            Value(pdf_file).pages[page_indices[Len(extracted_pages) + 1] + 1]))
            /\ conversion_stats' =
                 ExtractorStatsAfterPage(conversion_stats,
                                         extracted_pages'[Len(extracted_pages')])
            /\ UNCHANGED <<pdf_document, pc, result>>
    /\ UNCHANGED <<instanceVars, paragraphVars, webVars, textVars, combineVars,
                   imageVars, groupVars, call, pdf_file, total_pages,
                   page_indices, document, output_file>>

\* "return extracted_content", and the finally clause
PDFExtractor_extract_content_return ==
    /\ copy = "core"
    /\ pc = "pages"
    /\ Len(extracted_pages) = Len(page_indices)
    /\ pdf_document' = Closed(pdf_document)
    /\ result' = Returned(ExtractedDict(extracted_pages, page_indices))
    /\ pc' = "done"
    /\ UNCHANGED <<instanceVars, paragraphVars, webVars, conversion_stats,
                   textVars, combineVars, imageVars, groupVars, call, pdf_file,
                   total_pages, page_indices, extracted_pages, document,
                   output_file>>

NextExtract ==
    \/ PDFExtractor_extract_content
    \/ PDFExtractor_extract_page_content
    \/ PDFExtractor_extract_content_return

SpecExtract == InitExtract /\ [][NextExtract]_vars

(***************************************************************************)
(* The /convert handler of the web interface                               *)
(* (src/web/modern_web_interface.py): the upload is saved under its own    *)
(* file name in uploads/, converted by a converter made for the request    *)
(* into modern_output/<name>_MODERN.docx, the upload is deleted and the    *)
(* document is sent.  The server handles each request in a thread of its   *)
(* own, so the file operations of two requests interleave.                 *)
(***************************************************************************)
\* the requests in flight
MaxRequests == 2
Requests == 1..MaxRequests

\* secure_filename(pdf_file.filename)
WebFileNames == {"a.pdf", "b.pdf"}
\* the bytes request r uploads: a PDF of its own, or a file that is no PDF
PdfOf(r) == [kind |-> "pdf", of |-> r]
DamagedFile == [kind |-> "damaged", of |-> 0]
UploadsOf(r) == IF r = 1 THEN {PdfOf(r)} ELSE {PdfOf(r), DamagedFile}

\* pdf_filename.rsplit('.', 1)[0] + '_MODERN.docx'
OutputName(pdf_filename) ==
    IF pdf_filename = "a.pdf" THEN "a_MODERN.docx" ELSE "b_MODERN.docx"
WebOutputNames == {OutputName(n) : n \in WebFileNames}

\* the document the converter makes of the bytes of a PDF
Docx(bytes) == [converted_from |-> bytes]

\* what the handler returns: send_file, or a redirect with a flashed message
SentFile(content) == [status |-> "file", content |-> content]
Redirect(message) == [status |-> "error", message |-> message]

\* a request: the upload and its name, where the handler stands, the bytes the
\* converter has read, the status of its result and the response
Request(filename, upload) ==
    [filename |-> filename, upload |-> upload, pc |-> "start", pdf_read |-> None,
     status |-> None, response |-> None]

InitWeb ==
    /\ conversion_stats = ZeroStats
    /\ InstanceIdle
    /\ ParagraphIdle
    /\ TextIdle
    /\ CombineIdle
    /\ ImageIdle
    /\ GroupIdle
    /\ RunIdle
    /\ upload_folder = [n \in WebFileNames |-> None]
    /\ output_folder = [n \in WebOutputNames |-> None]
    /\ requests \in {q \in [Requests -> {Request(n, u) : n \in WebFileNames,
                                   u \in UNION {UploadsOf(r) : r \in Requests}}] :
                        /\ q[1].filename = "a.pdf"
                        /\ \A r \in Requests : q[r].upload \in UploadsOf(r)}

\* pdf_file.save(str(pdf_path))
Web_save_upload(r) ==
    /\ requests[r].pc = "start"
    /\ upload_folder' = [upload_folder EXCEPT ![requests[r].filename] =
                            Some(requests[r].upload)]
    /\ requests' = [requests EXCEPT ![r].pc = "saved"]
    /\ UNCHANGED output_folder

\* converter.convert_pdf_to_docx up to the end of the extraction: the file at
\* pdf_path is opened and read as it is then.  A file that is gone or is no
\* PDF gives a result of status 'error', which the handler flashes
Web_extract(r) ==
    /\ requests[r].pc = "saved"
    /\ requests' =
         IF \/ upload_folder[requests[r].filename] = None
            \/ upload_folder[requests[r].filename] = Some(DamagedFile)
         THEN [requests EXCEPT ![r].status = Some("error"),
                               ![r].response = Some(Redirect("Conversion failed")),
                               ![r].pc = "done"]
         ELSE [requests EXCEPT ![r].pdf_read = upload_folder[requests[r].filename],
                               ![r].pc = "extracted"]
    /\ UNCHANGED <<upload_folder, output_folder>>

\* the rest of convert_pdf_to_docx: the document is saved at output_path
Web_save_document(r) ==
    /\ requests[r].pc = "extracted"
    /\ output_folder' = [output_folder EXCEPT ![OutputName(requests[r].filename)] =
                            Some(Docx(Value(requests[r].pdf_read)))]
    /\ requests' = [requests EXCEPT ![r].status = Some("success"),
                                    ![r].pc = "converted"]
    /\ UNCHANGED upload_folder

\* pdf_path.unlink(): FileNotFoundError where the file is gone, caught by the
\* "except Exception" around the conversion
Web_cleanup(r) ==
    /\ requests[r].pc = "converted"
    /\ IF upload_folder[requests[r].filename] = None
       THEN /\ requests' = [requests EXCEPT
                                ![r].response = Some(Redirect("Conversion error")),
                                ![r].pc = "done"]
            /\ UNCHANGED upload_folder
       ELSE /\ upload_folder' = [upload_folder EXCEPT ![requests[r].filename] = None]
            /\ requests' = [requests EXCEPT ![r].pc = "cleaned"]
    /\ UNCHANGED output_folder

\* send_file(str(output_path), ...): the file as it is then
Web_send_file(r) ==
    /\ requests[r].pc = "cleaned"
    /\ requests' = [requests EXCEPT
                        ![r].response =
                            Some(SentFile(Value(output_folder[OutputName(requests[r].filename)]))),
                        ![r].pc = "done"]
    /\ UNCHANGED <<upload_folder, output_folder>>

NextWeb ==
    \E r \in Requests :
        /\ \/ Web_save_upload(r)
           \/ Web_extract(r)
           \/ Web_save_document(r)
           \/ Web_cleanup(r)
           \/ Web_send_file(r)
        /\ UNCHANGED <<conversion_stats, instanceVars, paragraphVars, textVars,
                       combineVars, imageVars, groupVars, runVars>>

SpecWeb == InitWeb /\ [][NextWeb]_vars

(***************************************************************************)
(* The rewrites, stated by position instead of by scanning: a space goes   *)
(* after every position of a set, a run of whitespace keeps its first      *)
(* position only.                                                          *)
(***************************************************************************)
SpacesAfter(s, after) ==
    LET place(i) == i + Cardinality({b \in after : b < i})
        n == Len(s) + Cardinality(after)
    IN [j \in 1..n |->
          IF \E i \in 1..Len(s) : place(i) = j
          THEN s[CHOOSE i \in 1..Len(s) : place(i) = j]
          ELSE " "]

Boundaries(s, First, Second) ==
    {i \in 1..(Len(s) - 1) : s[i] \in First /\ s[i+1] \in Second}

GluedWords(s) ==
    {p \in (1..Len(s)) \X (1..Len(CommonWords)) :
        /\ s[p[1]] \in Lower
        /\ WordAt(s, p[1] + 1, CommonWords[p[2]])
        /\ p[1] + Len(CommonWords[p[2]]) + 1 <= Len(s)
        /\ s[p[1] + Len(CommonWords[p[2]]) + 1] \in Upper}

GluedWordBoundaries(s) ==
    UNION {{p[1], p[1] + Len(CommonWords[p[2]])} : p \in GluedWords(s)}

RunStarts(s) ==
    {i \in 1..Len(s) : s[i] \notin Whitespace \/ i = 1 \/ s[i-1] \notin Whitespace}

OneSpacePerRun(s) ==
    LET kept == RunStarts(s)
        nth(j) == CHOOSE i \in kept : Cardinality({k \in kept : k < i}) = j - 1
    IN [j \in 1..Cardinality(kept) |->
          IF s[nth(j)] \in Whitespace THEN " " ELSE s[nth(j)]]

Rewrite1(s) == SpacesAfter(s, Boundaries(s, Lower, Upper))
Rewrite2(s) == SpacesAfter(s, Boundaries(s, TerminalPunct, Upper))
Rewrite3(s) == SpacesAfter(s, GluedWordBoundaries(s))
Rewrite4(s) == SpacesAfter(s, Boundaries(s, Lower, Digit))
Rewrite5(s) == OneSpacePerRun(s)

RewritesInOrder(s) == Rewrite5(Rewrite4(Rewrite3(Rewrite2(Rewrite1(s)))))


\* C1: spacing repair is idempotent: called on its own output,
\* _fix_text_spacing returns that output again.
C1_Idempotent ==
    \A k \in 2..Len(fix_rets) :
        fix_args[k] = fix_rets[k-1] => fix_rets[k] = fix_rets[k-1]

\* a string the first call changed has gone through a second call
C1_Witness ==
    /\ Len(fix_rets) >= 2
    /\ fix_args[2] = fix_rets[1]
    /\ fix_rets[1] # fix_args[1]

\* C2: _fix_text_spacing returns its argument with the five rewrites applied
\* in the order lower-upper, punctuation-upper, glued short word,
\* lower-digit, whitespace collapse; "wordsOf theBook" gives
\* "words Of the Book".
C2_RewritesInOrder ==
    \A k \in 1..Len(fix_rets) :
        /\ fix_rets[k] = RewritesInOrder(fix_args[k])
        /\ fix_args[k] = Str_wordsOf => fix_rets[k] = Str_words_Of

C2_Witness ==
    /\ Len(fix_rets) >= 1
    /\ fix_args[1] = Str_wordsOf
    /\ fix_rets[1] = Str_words_Of

\* C3: where a listed short word stands glued between a lowercase and an
\* uppercase letter of the argument, the returned string has a space on both
\* sides of that word ("bookofTales" gives "book of Tales").
C3_GluedWordSpaced ==
    \A k \in 1..Len(fix_rets) :
        /\ \A p \in GluedWords(fix_args[k]) :
              LET w == CommonWords[p[2]]
                  s == fix_args[k]
              IN Contains(fix_rets[k],
                          <<s[p[1]], " ">> \o w \o <<" ", s[p[1] + Len(w) + 1]>>)
        /\ fix_args[k] = Str_bookofTales => fix_rets[k] = Str_book_of_Tales

(***************************************************************************)
(* The joints of a fragment list, stated from the fragments alone.         *)
(***************************************************************************)
\* the estimated right edge of a fragment
RightEdge(part) == part.x + 5 * Len(part.text)

WhitespaceAtJoint(prev_part, part) ==
    \/ prev_part.text[Len(prev_part.text)] \in Whitespace
    \/ part.text[1] \in Whitespace

\* the joints that get a space: more than 10 units apart, no whitespace there
SpacedJoints(parts) ==
    {i \in 2..Len(parts) :
        /\ Abs(parts[i].x - RightEdge(parts[i-1])) > 10
        /\ ~WhitespaceAtJoint(parts[i-1], parts[i])}

\* the repaired fragment texts with one space at each joint of `spaced`
JoinedWithSpaces(parts, spaced) ==
    Join([i \in 1..Len(parts) |->
            IF i \in spaced THEN <<" ">> \o RewritesInOrder(parts[i].text)
            ELSE RewritesInOrder(parts[i].text)])

RatLess(a, b) == ~RatLeq(b, a)

\* the calls made by the copy under src/converters/
FitterCalls == {k \in 1..Len(image_log) : copy = "converters"}

PositiveNative(image) == image.width > 0 /\ image.height > 0

NativeInches(image) ==
    [width |-> Rat(image.width, PixelsPerInch), height |-> Rat(image.height, PixelsPerInch)]

\* s is min(W / w, H / h, 1): it exceeds none of the three and equals one
IsLeastOfThree(s, native, W, H) ==
    /\ RatLeq(s, <<1, 1>>)
    /\ RatLeq(RatMul(s, native.width), W)
    /\ RatLeq(RatMul(s, native.height), H)
    /\ \/ s = <<1, 1>>
       \/ RatMul(s, native.width) = W
       \/ RatMul(s, native.height) = H

SixByNine == Section(7772400, 10058400, 1143000, 1143000, 914400, 914400)

\* C5: an image of positive native size (w, h) is placed at
\* (w/72 * s, h/72 * s) with s = min(W / (w/72), H / (h/72), 1.0); 720 x 960
\* px into 6 x 9 in is placed at 6.0 x 8.0 in; an image that fits the
\* printable area is placed at its native size.
C5_PlacedAtScaledSize ==
    \A k \in FitterCalls :
        LET image == image_log[k].image
            native == NativeInches(image)
            W == MaxWidthInches(docx_section)
            H == MaxHeightInches(docx_section)
        IN PositiveNative(image) =>
            /\ image_log[k].outcome = "added"
            /\ \E s \in {RatDiv(W, native.width), RatDiv(H, native.height), <<1, 1>>} :
                  /\ IsLeastOfThree(s, native, W, H)
                  /\ image_log[k].inches = [width |-> RatMul(native.width, s),
                                            height |-> RatMul(native.height, s)]
            /\ docx_pictures[k] = [width |-> Inches(image_log[k].inches.width),
                                   height |-> Inches(image_log[k].inches.height)]
            /\ (docx_section = SixByNine /\ image = [width |-> 720, height |-> 960])
                  => docx_pictures[k] = [width |-> 6 * EmuPerInch, height |-> 8 * EmuPerInch]
            /\ (RatLeq(native.width, W) /\ RatLeq(native.height, H))
                  => image_log[k].inches = native

\* 720 x 960 px has been placed into the 6 x 9 in area
C5_Witness ==
    /\ copy = "converters"
    /\ docx_section = SixByNine
    /\ Len(image_log) >= 1
    /\ image_log[1].image = [width |-> 720, height |-> 960]
    /\ docx_pictures = <<[width |-> 5486400, height |-> 7315200]>>

\* C6: every placed image, one placed at the fallback size included, is at
\* most as wide and as high as the printable area.
C6_WithinPrintableArea ==
    \A k \in FitterCalls :
        /\ image_log[k].outcome = "added"
        /\ RatLeq(image_log[k].inches.width, MaxWidthInches(docx_section))
        /\ RatLeq(image_log[k].inches.height, MaxHeightInches(docx_section))
        /\ RatLeq(InInches(docx_pictures[k].width), MaxWidthInches(docx_section))
        /\ RatLeq(InInches(docx_pictures[k].height), MaxHeightInches(docx_section))

\* an image of width 0 has been placed, at the fallback size scaled down to
\* the width of a printable area narrower than 6 in
C6_Witness ==
    /\ copy = "converters"
    /\ Len(image_log) >= 1
    /\ image_log[1].image = [width |-> 0, height |-> 100]
    /\ RatLess(MaxWidthInches(docx_section), <<6, 1>>)
    /\ docx_pictures[1].width = Inches(MaxWidthInches(docx_section))

\* x is the Length of the size r in inches: r cut to whole EMU
IsLengthOf(x, r) ==
    /\ RatLeq(InInches(x), r)
    /\ RatLess(r, InInches(x + 1))

\* C7: an image of positive native size keeps its aspect ratio: the placed
\* width over the placed height is the native width over the native height,
\* the Lengths being these sizes cut to whole EMU.
C7_AspectRatioKept ==
    \A k \in FitterCalls :
        LET image == image_log[k].image
            placed == image_log[k].inches
        IN PositiveNative(image) =>
            /\ placed.width[1] > 0 /\ placed.height[1] > 0
            /\ RatDiv(placed.width, placed.height) = Rat(image.width, image.height)
            /\ IsLengthOf(docx_pictures[k].width, placed.width)
            /\ IsLengthOf(docx_pictures[k].height, placed.height)

\* an image the width limits, one the height limits, one neither limits
C7_Witness ==
    /\ copy = "converters"
    /\ Len(image_log) >= 1
    /\ PositiveNative(image_log[1].image)
    /\ image_log[1].inches.width = MaxWidthInches(docx_section)
    /\ RatLess(image_log[1].inches.height, MaxHeightInches(docx_section))

\* C8: in both copies of ModernPDF2DOCXConverter an image reported with a
\* width or height of 0 or less is fitted from the fallback size 6.0 x 8.0
\* in and placed.
C8_FallbackSizeUsed ==
    \A k \in 1..Len(image_log) :
        LET image == image_log[k].image
            fallback == [width |-> <<6, 1>>, height |-> <<8, 1>>]
        IN ~PositiveNative(image) =>
            /\ image_log[k].outcome = "added"
            /\ image_log[k].inches =
                  ScaledInches(fallback, MaxWidthInches(docx_section),
                               MaxHeightInches(docx_section))

(***************************************************************************)
(* The page selection and the order of the run, stated from the call.      *)
(***************************************************************************)
Selected == pc \in {"pages", "process", "done"}

\* the entries of the list that are pages of the PDF, in the list's order
ListEntriesInRange ==
    SelectSeq(Value(call.pages), LAMBDA p : p \in 0..(total_pages - 1))

\* the page numbers of a sequence of PageContent
PageNumbers(contents) == [i \in 1..Len(contents) |-> contents[i].page_number]

\* C9 as amended: a non-empty explicit page list takes precedence over
\* start_page and end_page: the pages selected are exactly its entries p with
\* 0 <= p < total_pages, whatever start_page and end_page are; entries outside
\* are dropped and the run does not fail for them.
C9_NonEmptyListTakesPrecedence ==
    /\ (Selected /\ call.pages # None /\ Value(call.pages) # <<>>)
          => page_indices = ListEntriesInRange
    /\ (pc = "done" /\ call.pages # None /\ Value(call.pages) # <<>>)
          => /\ result.status = "success"
             /\ PageNumbers(extracted_pages) = ListEntriesInRange

\* a list with an entry out of range, given with a start_page and an end_page
\* that exclude the entry in range, has been run
C9_Witness ==
    /\ pc = "done"
    /\ call = [pages |-> Some(<<0, MaxPages>>), start_page |-> 1, end_page |-> Some(1),
               password |-> None, output_path |-> "out.docx", template_path |-> None,
               font_paths |-> None]
    /\ total_pages = MaxPages
    /\ page_indices = <<0>>
    /\ result.status = "success"

\* C9: an explicit page list given with start_page/end_page takes precedence:
\* the pages selected are exactly its entries p with 0 <= p < total_pages.
C9_GivenListTakesPrecedence ==
    (Selected /\ call.pages # None) => page_indices = ListEntriesInRange

Ascending(ns) == \A i, j \in 1..Len(ns) : i < j => ns[i] <= ns[j]

\* C10: with an explicit page list the selected pages are processed, and
\* their content is given to the document, in ascending page-index order;
\* pages=[0, 5, 99] on a PDF of 10 pages processes pages [0, 5].
C10_AscendingPageOrder ==
    (Selected /\ call.pages # None) =>
        /\ Ascending(PageNumbers(extracted_pages))
        /\ Ascending([i \in 1..Len(Processed(document)) |-> Processed(document)[i].page])
        /\ (pc = "done" /\ call = Call_0_5_99 /\ total_pages = 10)
              => PageNumbers(extracted_pages) = <<0, 5>>


(***************************************************************************)
(* The clusters, stated from the block list.                               *)
(***************************************************************************)
\* the extractor's sort runs down the page: y ascends under src/converters/
\* (y grows downward there), y descends in src/ (y grows upward there)
SortDirection == IF copy = "root" THEN -1 ELSE 1

Anchor(paragraph) == Value(paragraph.y_position)

\* whether the blocks stand in the order of the key (d * y, x)
IsSortedByPosition(blocks, d) ==
    \A i, j \in 1..Len(blocks) :
        i < j => \/ d * blocks[i].y < d * blocks[j].y
                 \/ blocks[i].y = blocks[j].y /\ blocks[i].x <= blocks[j].x

\* C17: after the extractor's position sort and _group_text_into_paragraphs,
\* the anchors of the paragraphs are monotonic in the sort direction: no
\* paragraph's anchor is above the anchor of a paragraph emitted before it.
C17_AnchorsMonotonic ==
    (layout = "extracted" /\ paragraphs # None) =>
        \A i, j \in 1..Len(Value(paragraphs)) :
            i < j => SortDirection * Anchor(Value(paragraphs)[i])
                        <= SortDirection * Anchor(Value(paragraphs)[j])

\* three clusters have come out of the older copy's extractor, top first
C17_Witness ==
    /\ copy = "root"
    /\ layout = "extracted"
    /\ paragraphs # None
    /\ Len(Value(paragraphs)) = 3
    /\ Anchor(Value(paragraphs)[1]) = 200
    /\ Anchor(Value(paragraphs)[2]) = 80
    /\ Anchor(Value(paragraphs)[3]) = 72

\* C19: the clusters are anchor-based: a cluster's anchor is the y of its
\* first fragment, every member is within 5 units of the anchor, a cluster
\* ends exactly where the next fragment is more than 5 units from the anchor
\* (the preceding fragment's y does not count), and the clusters are the
\* input cut into runs; fragments at y=72 and y=200 give two paragraphs in
\* that order.
C19_AnchorBasedClusters ==
    paragraphs # None =>
        LET ps == Value(paragraphs)
        IN /\ Join([k \in 1..Len(ps) |-> ps[k].text_parts]) = text_blocks
           /\ \A k \in 1..Len(ps) :
                /\ ps[k].text_parts # <<>>
                /\ ps[k].y_position = Some(ps[k].text_parts[1].y)
                /\ \A m \in 1..Len(ps[k].text_parts) :
                      Abs(ps[k].text_parts[m].y - Anchor(ps[k])) <= 5
           /\ \A k \in 2..Len(ps) :
                Abs(ps[k].text_parts[1].y - Anchor(ps[k-1])) > 5
           /\ text_blocks = Blocks_Para1Para2 =>
                ps = <<ParagraphData(<<Blocks_Para1Para2[1]>>, Some(72)),
                       ParagraphData(<<Blocks_Para1Para2[2]>>, Some(200))>>

\* fragments at y = 72, 76, 80 have been clustered: 80 is within 5 of the
\* fragment before it, not of the anchor 72, and opens a second cluster
C19_Witness ==
    /\ paragraphs # None
    /\ Len(text_blocks) = 3
    /\ text_blocks[1].y = 72 /\ text_blocks[2].y = 76 /\ text_blocks[3].y = 80
    /\ Len(Value(paragraphs)) = 2
    /\ Len(Value(paragraphs)[1].text_parts) = 2
    /\ Anchor(Value(paragraphs)[2]) = 80

\* C20: in every cluster made from a page's fragments sorted by position
\* (by (y, x), or by (-y, x) as the older copy's extractor sorts), the members
\* are in ascending x order.
C20_MembersAscendingX ==
    (/\ paragraphs # None
     /\ \/ layout = "extracted"
        \/ IsSortedByPosition(text_blocks, 1)
        \/ IsSortedByPosition(text_blocks, -1)) =>
        \A k \in 1..Len(Value(paragraphs)) :
            \A i, j \in 1..Len(Value(paragraphs)[k].text_parts) :
                i < j => Value(paragraphs)[k].text_parts[i].x
                            <= Value(paragraphs)[k].text_parts[j].x


\* whether p is q, or q cut off at some point
IsPrefix(p, q) == Len(p) <= Len(q) /\ SubSeq(q, 1, Len(p)) = p

\* the fragments of the clusters, in the clusters' order
Fragments(ps) == Join([k \in 1..Len(ps) |-> ps[k].text_parts])

\* C21: _group_text_into_paragraphs cuts its input into contiguous runs: the
\* text_parts of the returned paragraphs, concatenated in order, are the input
\* list; no returned paragraph is empty; and a cluster once closed is never
\* given a fragment: after each round of the loop the closed clusters are those
\* of the round before, with at most one more, and closed clusters with the
\* open one hold the fragments read so far.
C21_ContiguousRuns ==
    paragraphs # None =>
        /\ Fragments(Value(paragraphs)) = text_blocks
        /\ \A k \in 1..Len(Value(paragraphs)) : Value(paragraphs)[k].text_parts # <<>>
        /\ \A i \in 1..Len(text_blocks) :
              LET before == GroupedAfter(text_blocks, i - 1)
                  after == GroupedAfter(text_blocks, i)
              IN /\ IsPrefix(before.paragraphs, after.paragraphs)
                 /\ Len(after.paragraphs) <= Len(before.paragraphs) + 1
                 /\ Fragments(Append(after.paragraphs, after.current_paragraph))
                       = SubSeq(text_blocks, 1, i)
        /\ IsPrefix(GroupedAfter(text_blocks, Len(text_blocks)).paragraphs,
                    Value(paragraphs))

\* a caller's list y = 72, 200, 76 has been clustered: the third fragment is
\* within 5 of the first cluster's anchor, which is closed, and opens a third
C21_Witness ==
    /\ paragraphs # None
    /\ layout = "page"
    /\ Len(text_blocks) = 3
    /\ text_blocks[1].y = 72 /\ text_blocks[2].y = 200 /\ text_blocks[3].y = 76
    /\ Len(Value(paragraphs)) = 3
    /\ Anchor(Value(paragraphs)[3]) = 76


(***************************************************************************)
(* The run, stated from the call, the PDF and the output path.             *)
(***************************************************************************)
Done == pc = "done"

\* the PDF opens: it is there, and it is not encrypted or the password fits
Opens ==
    /\ pdf_file # None
    /\ Value(pdf_file).encrypted => call.password = Some("owner")

\* the pages of the PDF that the call selects, as kinds of page
SelectedPages == [k \in 1..Len(page_indices) |-> Value(pdf_file).pages[page_indices[k] + 1]]

\* every page of the PDF reads without failure
ReadsWell == \A i \in 1..Len(Value(pdf_file).pages) :
                Value(pdf_file).pages[i] \in {WholePage, BlankPage}

\* C11: for N >= 1 processed pages the document gets exactly N-1 page
\* breaks, one between the content of each two consecutive processed pages,
\* none before the first and none after the last, whatever the selection.
C11_BreakBetweenConsecutivePages ==
    (Done /\ result.status = "success" /\ Len(page_indices) >= 1) =>
        /\ Len(document) = 2 * Len(page_indices) - 1
        /\ \A i \in 1..Len(document) :
              document[i].kind = IF i % 2 = 1 THEN "page" ELSE "page_break"

\* C12: convert_pdf_to_docx of ModernPDF2DOCXConverter always returns a
\* record: every run ends, its status is 'success' or 'error', an 'error'
\* record carries a message, and for a PDF that opens and reads well, saved
\* where a file can be written, it is 'success' with pages_converted the
\* number of selected pages.
C12_AlwaysReturnsARecord ==
    copy \in {"converters", "root"} =>
        /\ ~Done => ENABLED NextRun
        /\ Done =>
            /\ result # None
            /\ result.status \in {"success", "error"}
            /\ result.status = "error" =>
                  "error" \in DOMAIN result /\ result.error # ""
            /\ result.status = "success" =>
                  result.pages_converted = Len(page_indices)
            /\ (Opens /\ ReadsWell /\ ~SaveRaises(call.output_path)) =>
                  /\ result.status = "success"
                  /\ result.pages_converted = Len(page_indices)

\* runs have ended in an error record for a missing input file
C12_Witness ==
    /\ Done
    /\ copy = "converters"
    /\ pdf_file = None
    /\ result.status = "error"
    /\ result.error = "Conversion failed: 'NoneType' object has no attribute 'close'"

\* C13: status 'success' is reported only when the output file exists and
\* has a size above zero.
C13_SuccessOnlyWithOutput ==
    (Done /\ result.status = "success") => output_file = "written"

\* C14: a failure while one page is extracted (text, images or page size)
\* does not abort the run: the part that failed contributes nothing, every
\* selected page is processed and the conversion succeeds.
C14_PageFailureDoesNotAbort ==
    (Done /\ Opens /\ call.output_path = "out.docx") =>
        /\ result.status = "success"
        /\ Len(extracted_pages) = Len(page_indices)
        /\ Len(Processed(document)) = Len(page_indices)
        /\ \A k \in 1..Len(extracted_pages) :
              /\ SelectedPages[k].text = "fails" => extracted_pages[k].text_blocks = <<>>
              /\ SelectedPages[k].images = "fails" => extracted_pages[k].images = <<>>

\* C15: for an encrypted PDF opened with no password or a wrong one, every
\* converter's run ends with status 'error', and no page is extracted or
\* processed.
C15_EncryptedWithoutPasswordFails ==
    (pdf_file # None /\ Value(pdf_file).encrypted /\ call.password # Some("owner")) =>
        /\ extracted_pages = <<>>
        /\ document = <<>>
        /\ conversion_stats.pages_processed = 0
        /\ Done => result.status = "error"

\* the indices from lo up to hi - 1, ascending
Span(lo, hi) == [i \in 1..(hi - lo) |-> lo + i - 1]

\* C16: with no explicit page list the pages selected are the i with
\* max(0, start_page) <= i < min(total_pages, end_page), ascending, end_page
\* exclusive; with no end_page the range runs to the last page.
C16_RangeSelection ==
    (/\ copy = "converters"
     /\ pc \in {"pages", "process", "done"}
     /\ Opens
     /\ call.pages = None) =>
        LET lo == IF call.start_page > 0 THEN call.start_page ELSE 0
            hi == IF call.end_page = None THEN total_pages
                  ELSE IF Value(call.end_page) < total_pages THEN Value(call.end_page)
                  ELSE total_pages
        IN page_indices = (IF hi > lo THEN Span(lo, hi) ELSE <<>>)

\* C18: a page with no text and no images adds no paragraph and no picture to
\* the document and causes no error: a conversion whose PDF contains such
\* pages succeeds and processes every selected page.
C18_BlankPageAddsNothing ==
    /\ \A i \in 1..Len(document) :
          (document[i].kind = "page"
             /\ Value(pdf_file).pages[document[i].page + 1] = BlankPage)
          => document[i].paragraphs = 0 /\ document[i].pictures = 0
    /\ (Done /\ Opens /\ ReadsWell /\ call.output_path = "out.docx") =>
          /\ result.status = "success"
          /\ Len(Processed(document)) = Len(page_indices)

\* a page with text and an image, then a blank page, have been converted
C18_Witness ==
    /\ Done
    /\ copy = "converters"
    /\ pdf_file # None
    /\ Value(pdf_file).pages = <<WholePage, BlankPage>>
    /\ result.status = "success"
    /\ document = << [kind |-> "page", page |-> 0, paragraphs |-> 1, pictures |-> 1],
                     [kind |-> "page_break", page |-> 0],
                     [kind |-> "page", page |-> 1, paragraphs |-> 0, pictures |-> 0] >>


(***************************************************************************)
(* The paragraph written for a cluster, stated from the cluster.           *)
(***************************************************************************)
\* the paragraph _add_paragraph_to_document has added
AddedParagraph == docx_paragraphs[Len(docx_paragraphs)]

\* the text a reader of the document sees in a paragraph
VisibleText(runs) == Join([i \in 1..Len(runs) |-> runs[i].text])

\* the Word font for the fragments' font names, no custom font registered
WordFontName(font_name) ==
    CASE font_name = Str_Unknown -> Str_Calibri
      [] font_name = Str_Times -> Str_Times_New_Roman
      [] font_name = Str_ABC_Helvetica_Bold -> Str_Arial
      [] font_name = Str_Garamond_Italic -> Str_Garamond

\* whether the custom font Times (f/Times.ttf) stands for a fragment's font
TimesStandsFor(font_name) ==
    custom_fonts # <<>> /\ font_name = Str_Times

\* a size in points clamped to 8..72, as a Length
ClampedSize(font_size) ==
    IF font_size < 8 THEN 8 * 12700
    ELSE IF font_size > 72 THEN 72 * 12700
    ELSE font_size * 12700

\* C22 as amended: each cluster becomes exactly one paragraph with exactly
\* one run per fragment, in cluster order; each run carries its fragment's own
\* text, the fragment's font name normalised (a registered custom font whose
\* name contains it, else 'Unknown' becomes Calibri, a subset prefix and a
\* variant suffix are removed and Times/Helvetica/... become Word's fonts) and
\* the fragment's font size clamped to 8..72 pt; so the paragraph has a run.
C22_RunsCarryNormalisedFonts ==
    combined_text # None =>
        /\ Len(docx_paragraphs) = 1
        /\ Len(AddedParagraph) = Len(text_parts)
        /\ Len(AddedParagraph) >= 1
        /\ \A i \in 1..Len(text_parts) :
              /\ AddedParagraph[i].text = text_parts[i].text
              /\ AddedParagraph[i].font.name =
                    IF TimesStandsFor(text_parts[i].font_name) THEN Str_Times
                    ELSE WordFontName(text_parts[i].font_name)
              /\ AddedParagraph[i].font.size = ClampedSize(text_parts[i].font_size)

\* a cluster of two fragments, one in Times at 6 pt and one in a Helvetica
\* subset at 100 pt, has been written with the custom font Times registered
C22_Witness ==
    /\ combined_text # None
    /\ custom_fonts = <<FontInfo(Str_Times, Str_Times_ttf)>>
    /\ Len(text_parts) = 2
    /\ text_parts[1].font_name = Str_Times /\ text_parts[1].font_size = 6
    /\ text_parts[2].font_name = Str_ABC_Helvetica_Bold /\ text_parts[2].font_size = 100
    /\ Len(docx_paragraphs) = 1
    /\ AddedParagraph[1].font = [name |-> Str_Times, size |-> 101600]
    /\ AddedParagraph[2].font = [name |-> Str_Arial, size |-> 914400]

\* C22: each cluster becomes exactly one paragraph with exactly one run per
\* fragment, in cluster order, each run carrying that fragment's own text and
\* font name and size; so every paragraph has at least one run.
C22_RunsCarryFragmentFonts ==
    combined_text # None =>
        /\ Len(docx_paragraphs) = 1
        /\ Len(AddedParagraph) = Len(text_parts)
        /\ Len(AddedParagraph) >= 1
        /\ \A i \in 1..Len(text_parts) :
              /\ AddedParagraph[i].text = text_parts[i].text
              /\ AddedParagraph[i].font.name = text_parts[i].font_name
              /\ AddedParagraph[i].font.size = text_parts[i].font_size * 12700

\* C23: the visible text of each paragraph written to the document, the
\* concatenation of its runs' texts, is the spacing-repaired combined text
\* that _combine_text_with_spacing computes for the cluster.
C23_VisibleTextIsCombinedText ==
    combined_text # None =>
        \A k \in 1..Len(docx_paragraphs) :
            VisibleText(docx_paragraphs[k]) = Value(combined_text)


\* C24: each call of _fix_text_spacing increases spacing_fixes_applied by
\* exactly 1 when the string it returns differs from its argument and leaves
\* the counter as it is when they are equal; no other counter and no other
\* state of the converter changes; and the string returned is the one the
\* five rewrites give for the argument, whatever the counter holds.
C24_CounterCountsChangedTexts ==
    [][LET k == Len(fix_rets')
       IN /\ conversion_stats' =
                [conversion_stats EXCEPT !.spacing_fixes_applied =
                    IF fix_rets'[k] # fix_args'[k] THEN @ + 1 ELSE @]
          /\ fix_rets'[k] = RewritesInOrder(fix_args'[k])
          /\ UNCHANGED <<combineVars, imageVars, groupVars, runVars, instanceVars,
                         paragraphVars, webVars>>]_vars

\* 'oT' has been repaired to 'o T' and counted, and the call on 'o T', made
\* with the counter at 1, has returned it and left the counter at 1
C24_Witness ==
    /\ fix_args = << <<"o", "T">>, <<"o", " ", "T">> >>
    /\ fix_rets = << <<"o", " ", "T">>, <<"o", " ", "T">> >>
    /\ conversion_stats.spacing_fixes_applied = 1


\* s with every whitespace character deleted
WithoutWhitespace(s) == SelectSeq(s, LAMBDA c : c \notin Whitespace)

\* C26: _fix_text_spacing only adds or collapses whitespace: its output with
\* all whitespace deleted is its input with all whitespace deleted, so no
\* other character is removed, added or moved.
C26_OnlyWhitespaceChanges ==
    \A k \in 1..Len(fix_rets) :
        WithoutWhitespace(fix_rets[k]) = WithoutWhitespace(fix_args[k])

\* 'oT' followed by a space and a tab has been repaired to 'o T '
C26_Witness ==
    /\ Len(fix_rets) >= 1
    /\ fix_args[1] = <<"o", "T", " ", "\t">>
    /\ fix_rets[1] = <<"o", " ", "T", " ">>


\* the document has its section and is being given the pages
HasSection == copy \in {"converters", "root"} /\ pc = "process"

\* C25: the page geometry used to fit the images of a conversion, taken from
\* the template's section or from the first processed page's size with 1 in
\* margins, has a positive printable area: page width less the left and right
\* margins, and page height less the top and bottom margins, are above zero.
C25_PositivePrintableArea ==
    HasSection =>
        /\ docx_section.page_width - docx_section.left_margin
              - docx_section.right_margin > 0
        /\ docx_section.page_height - docx_section.top_margin
              - docx_section.bottom_margin > 0


\* the numbers of text blocks and of images in a sequence of PageContent
RECURSIVE TextBlocksIn(_)
TextBlocksIn(pages) ==
    IF pages = <<>> THEN 0
    ELSE Len(Head(pages).text_blocks) + TextBlocksIn(Tail(pages))
RECURSIVE ImagesIn(_)
ImagesIn(pages) ==
    IF pages = <<>> THEN 0
    ELSE Len(Head(pages).images) + ImagesIn(Tail(pages))

\* C28: the stats of a successful run of ModernPDF2DOCXConverter are those
\* of the run: pages_processed is pages_converted and the number of selected
\* pages, text_blocks_extracted is the number of text blocks extracted from
\* these pages and images_extracted the number of images extracted from them.
C28_StatsAreAccurate ==
    (Done /\ copy \in {"converters", "root"} /\ result.status = "success") =>
        /\ result.stats.pages_processed = result.pages_converted
        /\ result.stats.pages_processed = Len(page_indices)
        /\ result.stats.text_blocks_extracted = TextBlocksIn(extracted_pages)
        /\ result.stats.images_extracted = ImagesIn(extracted_pages)


\* the font names of the fragments, and the font a run gets for each of them
\* with the registered fonts fonts
FontNames == {f[1] : f \in FragmentFonts}
FontMapping(fonts) ==
    [n \in FontNames |-> RunFont(Fragment(<<"T">>, 0, n, 12), fonts).name]

\* self.custom_fonts of a converter created for the call
FreshFonts(call_) ==
    IF ListGiven(call_.font_paths) THEN RegisteredFonts(<<>>, Value(call_.font_paths))
    ELSE <<>>

\* the section a converter created for the call gives the document
FreshSection(call_, pages) ==
    DocumentSection(TemplateDocumentAfterLoad(None, call_.template_path),
                    call_.template_path, pages)

\* C27: what a call of convert_pdf_to_docx makes depends on its arguments and
\* not on earlier calls on the object: the page geometry and the font mapping
\* of a run are those of the same call on a converter just created.
C27_ResultDependsOnArgumentsOnly ==
    HasSection =>
        /\ docx_section = FreshSection(call, extracted_pages)
        /\ FontMapping(custom_fonts) = FontMapping(FreshFonts(call))


\* a selected page whose size cannot be read: _extract_page_content raises
APageFails ==
    \E k \in 1..Len(page_indices) :
        Value(pdf_file).pages[page_indices[k] + 1].size = "fails"

\* C29: PDFExtractor.extract_content never raises: where the PDF cannot be
\* opened, or is encrypted and the password is missing or wrong, or a page
\* fails, it returns the empty dict, and whenever it has returned the
\* document it opened is closed.
C29_ExtractNeverRaises ==
    (copy = "core" /\ Done) =>
        /\ result.status = "returned"
        /\ (~Opens \/ APageFails) => result.value = EmptyDict
        /\ pdf_document # None => Value(pdf_document).is_closed


\* C30: requests handled at the same time do not interfere, also when their
\* uploads have the same file name: each converts the bytes it uploaded, each
\* that sends a document sends the one converted from its own upload, and a
\* request whose conversion succeeded sends a document and not an error.
C30_RequestsDoNotInterfere ==
    \A r \in DOMAIN requests :
        /\ requests[r].pdf_read # None => requests[r].pdf_read = Some(requests[r].upload)
        /\ (requests[r].pc = "done" /\ Value(requests[r].response).status = "file") =>
              Value(requests[r].response).content = Docx(requests[r].upload)
        /\ (requests[r].pc = "done" /\ requests[r].status = Some("success")) =>
              Value(requests[r].response).status = "file"

====
